---- MODULE Spec2Model ----
(***************************************************************************)
(* Model of the pre-commit reconciliation engine of repoma                 *)
(* (src/repoma/utilities/precommit.py) and of the checkers that use it.    *)
(*                                                                         *)
(* The state is the file .pre-commit-config.yaml plus what the last call   *)
(* of the engine did (the descriptor object it was given, as the call      *)
(* left it; the PrecommitError it raised; the number of dumps) and the     *)
(* number of calls made; for the checkers, the other files of the working  *)
(* tree (tree), the checker that ran last (checker), the sub-checks it     *)
(* executed (executed) and the files it opened (opened).                   *)
(*                                                                         *)
(* Strings are sequences of one-character strings.  Indices returned by    *)
(* the operators are 0-based, as in the Python code; a sequence s is       *)
(* accessed at s[i + 1].                                                   *)
(***************************************************************************)
EXTENDS Integers, Sequences, FiniteSets, TLC

VARIABLES file, arg, expected_repo_def, raised, writes, idx, runs,
          tree, checker, executed, opened

vars == <<file, arg, expected_repo_def, raised, writes, idx, runs,
          tree, checker, executed, opened>>

-----------------------------------------------------------------------------
(* Bounds of the model *)

\* number of repo entries of the file before the first call
MaxInitRepos == 2
\* number of calls in the behaviours that start from an empty repos list
MaxOrderRuns == 3

-----------------------------------------------------------------------------
(* Strings *)

\* ord() of the characters that occur in hook ids
Code(c) ==
    CASE c = "B" -> 66
      [] c = "a" -> 97
      [] c = "b" -> 98
      [] c = "c" -> 99

\* str.lower() on one character
LowerChar(c) == IF c = "B" THEN "b" ELSE c

\* str.lower()
Lower(s) == [i \in 1..Len(s) |-> LowerChar(s[i])]

\* s <= t on Python strings: lexicographic order of the code points
RECURSIVE StrLe(_, _)
StrLe(s, t) ==
    IF s = <<>> THEN TRUE
    ELSE IF t = <<>> THEN FALSE
    ELSE IF Code(s[1]) < Code(t[1]) THEN TRUE
    ELSE IF Code(s[1]) > Code(t[1]) THEN FALSE
    ELSE StrLe(Tail(s), Tail(t))

-----------------------------------------------------------------------------
(* re.search(pattern, url) for patterns made of literal characters and the *)
(* quantifier "+" (one or more of the preceding character).                *)

\* the pattern as a sequence of items: a character, and whether "+" follows
RECURSIVE Compile(_)
Compile(p) ==
    IF p = <<>> THEN <<>>
    ELSE IF Len(p) >= 2 /\ p[2] = "+"
         THEN <<[ch |-> p[1], plus |-> TRUE]>> \o Compile(SubSeq(p, 3, Len(p)))
         ELSE <<[ch |-> p[1], plus |-> FALSE]>> \o Compile(Tail(p))

\* items i.. of the pattern match url from position k on
RECURSIVE MatchAt(_, _, _, _)
MatchAt(items, i, url, k) ==
    IF i > Len(items) THEN TRUE
    ELSE IF items[i].plus
         THEN \E n \in 1..(Len(url) - k + 1) :
                 /\ \A j \in k..(k + n - 1) : url[j] = items[i].ch
                 /\ MatchAt(items, i + 1, url, k + n)
         ELSE /\ k <= Len(url)
              /\ url[k] = items[i].ch
              /\ MatchAt(items, i + 1, url, k + 1)

\* re.search: the pattern matches somewhere in url
Search(search_pattern, url) ==
    \E k \in 1..(Len(url) + 1) : MatchAt(Compile(search_pattern), 1, url, k)

-----------------------------------------------------------------------------
(* Values *)

\* a mapping without the key "rev"
NoRev == "<no rev>"

\* .pre-commit-config.yaml does not exist
NoFile == [exists |-> FALSE, repos |-> <<>>, top |-> <<>>]

HookIds == {<<"a">>, <<"B">>, <<"c">>}

\* repo URLs of descriptors
Urls == {<<"a">>, <<"b">>, <<"c">>, <<"a", "+", "b">>}

\* the single-hook descriptors a checker passes to the engine: without a
\* rev, or (one of them) with a rev of its own
Descriptors ==
    {[repo |-> u, rev |-> NoRev, hooks |-> <<[id |-> i, args |-> "-"]>>] :
        u \in Urls, i \in HookIds} \cup
    {[repo |-> <<"a">>, rev |-> "v2", hooks |-> <<[id |-> <<"c">>, args |-> "-"]>>]}

\* the top-level settings of a file: none of the keys, or all four
TopLevel ==
    {<<>>, <<[ci |-> "c", files |-> "f", exclude |-> "e", fail_fast |-> TRUE]>>}

\* repo entries of a hand-written file
FileUrls == {<<"a">>, <<"a", "b">>}

\* one hook, or the two hooks "a" and "c"
FileHooks ==
    {<<[id |-> <<"a">>, args |-> "x"]>>,
     <<[id |-> <<"c">>, args |-> "-"]>>,
     <<[id |-> <<"a">>, args |-> "-"], [id |-> <<"c">>, args |-> "-"]>>}

FileEntries(b) ==
    {[repo |-> u, rev |-> r, hooks |-> hs, blank |-> b] :
        u \in FileUrls, r \in {NoRev, "v1"}, hs \in FileHooks}

\* the files before the first call: no file, or up to MaxInitRepos entries,
\* all of them preceded by a blank line or none of them
InitFiles ==
    {NoFile} \cup
    UNION {{[exists |-> TRUE, repos |-> s, top |-> t] :
               s \in [1..n -> FileEntries(b)], t \in TopLevel} :
            n \in 0..MaxInitRepos, b \in BOOLEAN}

-----------------------------------------------------------------------------
(* Round trip of the YAML document.  ruamel.yaml attaches a blank line to  *)
(* the node that precedes it: the blank line before entry i + 1 travels    *)
(* with entry i (trail), the one before the first entry stays with the     *)
(* key "repos" (lead).  yaml_set_comment_before_after_key records a        *)
(* directive for an index of the sequence (before).                        *)

load_round_trip_precommit_config(f) ==
    [repos  |-> [i \in 1..Len(f.repos) |->
                    [repo  |-> f.repos[i].repo,
                     rev   |-> f.repos[i].rev,
                     hooks |-> f.repos[i].hooks,
                     trail |-> i < Len(f.repos) /\ f.repos[i + 1].blank]],
     lead   |-> Len(f.repos) > 0 /\ f.repos[1].blank,
     before |-> {},
     top    |-> f.top]

\* mutant: only the key "repos" is written
dump_without_settings(config) ==
    [exists |-> TRUE,
     repos  |-> [i \in 1..Len(config.repos) |->
                    [repo  |-> config.repos[i].repo,
                     rev   |-> config.repos[i].rev,
                     hooks |-> config.repos[i].hooks,
                     blank |-> \/ (i - 1) \in config.before
                               \/ IF i = 1 THEN config.lead
                                  ELSE config.repos[i - 1].trail]],
     top    |-> <<>>]

dump(config) ==
    [exists |-> TRUE,
     repos  |-> [i \in 1..Len(config.repos) |->
                    [repo  |-> config.repos[i].repo,
                     rev   |-> config.repos[i].rev,
                     hooks |-> config.repos[i].hooks,
                     blank |-> \/ (i - 1) \in config.before
                               \/ IF i = 1 THEN config.lead
                                  ELSE config.repos[i - 1].trail]],
     top    |-> config.top]

\* CommentedSeq.insert: the directives of the indices from i on move up
seq_insert(config, i, entry) ==
    [config EXCEPT
        !.repos  = SubSeq(@, 1, i) \o <<entry>> \o SubSeq(@, i + 1, Len(@)),
        !.before = {k \in @ : k < i} \cup {k + 1 : k \in {k \in @ : k >= i}}]

\* mutant: the directive is not recorded
set_comment_dropped(config, key) == config

yaml_set_comment_before_after_key(config, key) ==
    [config EXCEPT !.before = @ \cup {key}]

\* a descriptor as an element of the loaded sequence: a new node, no comments
Node(d) == [repo |-> d.repo, rev |-> d.rev, hooks |-> d.hooks, trail |-> FALSE]

-----------------------------------------------------------------------------
(* The engine *)

RECURSIVE FirstMatch(_, _, _)
FirstMatch(repos, search_pattern, i) ==
    IF i >= Len(repos) THEN [found |-> FALSE, idx |-> Len(repos)]
    ELSE IF Search(search_pattern, repos[i + 1].repo) THEN [found |-> TRUE, idx |-> i]
    ELSE FirstMatch(repos, search_pattern, i + 1)

\* mutant: the last entry that matches is returned
find_last_repo(config, search_pattern) ==
    LET m == {i \in 0..(Len(config.repos) - 1) :
                 Search(search_pattern, config.repos[i + 1].repo)}
    IN  IF m = {} THEN [found |-> FALSE, idx |-> Len(config.repos)]
        ELSE [found |-> TRUE, idx |-> CHOOSE i \in m : \A j \in m : j <= i]

find_repo(config, search_pattern) == FirstMatch(config.repos, search_pattern, 0)

\* mutant: the hook ids are compared without lower()
RECURSIVE ExpectedIndexCaseSensitive(_, _, _)
ExpectedIndexCaseSensitive(repos, hook_id, i) ==
    IF i >= Len(repos) THEN Len(repos)
    ELSE IF Len(repos[i + 1].hooks) # 1 THEN ExpectedIndexCaseSensitive(repos, hook_id, i + 1)
    ELSE IF StrLe(hook_id, repos[i + 1].hooks[1].id) THEN i
    ELSE ExpectedIndexCaseSensitive(repos, hook_id, i + 1)

\* mutant: an entry with several hooks is compared by its first hook
RECURSIVE ExpectedIndexNoSkip(_, _, _)
ExpectedIndexNoSkip(repos, hook_id, i) ==
    IF i >= Len(repos) THEN Len(repos)
    ELSE IF StrLe(Lower(hook_id), Lower(repos[i + 1].hooks[1].id)) THEN i
    ELSE ExpectedIndexNoSkip(repos, hook_id, i + 1)

RECURSIVE ExpectedIndexFrom(_, _, _)
ExpectedIndexFrom(repos, hook_id, i) ==
    IF i >= Len(repos) THEN Len(repos)
    ELSE IF Len(repos[i + 1].hooks) # 1 THEN ExpectedIndexFrom(repos, hook_id, i + 1)
    ELSE IF StrLe(Lower(hook_id), Lower(repos[i + 1].hooks[1].id)) THEN i
    ELSE ExpectedIndexFrom(repos, hook_id, i + 1)

_determine_expected_repo_index(config, hook_id) ==
    ExpectedIndexFrom(config.repos, hook_id, 0)

remove_rev(r) == [repo |-> r.repo, hooks |-> r.hooks]

\* mutant: rev is compared as well
is_equal_repo(expected, existing) ==
    remove_rev(expected) = remove_rev(existing) /\ expected.rev = existing.rev

_is_equivalent_repo(expected, existing) == remove_rev(expected) = remove_rev(existing)

\* mutant: a missing file is created empty
ReturnedAfterCreate(f, e) ==
    [file |-> IF f.exists THEN f ELSE [exists |-> TRUE, repos |-> <<>>, top |-> <<>>],
     expected |-> e, raised |-> <<>>, writes |-> 0, idx |-> <<>>]

\* the call returns without raising and without writing
Returned(f, e) ==
    [file |-> f, expected |-> e, raised |-> <<>>, writes |-> 0, idx |-> <<>>]

\* mutant: no placeholder for a missing rev
InsertedWithoutPlaceholder(config, e) ==
    LET i        == _determine_expected_repo_index(config, e.hooks[1].id)
        config1  == seq_insert(config, i, Node(e))
        config2  == yaml_set_comment_before_after_key(
                        config1, IF i + 1 = Len(config1.repos) THEN i ELSE i + 1)
    IN  [file     |-> dump(config2),
         expected |-> e,
         raised   |-> <<[kind |-> "Added", hook_id |-> e.hooks[1].id]>>,
         writes   |-> 1,
         idx      |-> <<i>>]

\* mutant: the directive always goes to the index after the new entry
InsertedDirectiveAfter(config, e) ==
    LET expected == IF e.rev = NoRev THEN [e EXCEPT !.rev = ""] ELSE e
        i        == _determine_expected_repo_index(config, e.hooks[1].id)
        config1  == seq_insert(config, i, Node(expected))
        config2  == yaml_set_comment_before_after_key(config1, i + 1)
    IN  [file     |-> dump(config2),
         expected |-> expected,
         raised   |-> <<[kind |-> "Added", hook_id |-> e.hooks[1].id]>>,
         writes   |-> 1,
         idx      |-> <<i>>]

Inserted(config, e) ==
    LET expected == IF e.rev = NoRev THEN [e EXCEPT !.rev = ""] ELSE e
        i        == _determine_expected_repo_index(config, e.hooks[1].id)
        config1  == seq_insert(config, i, Node(expected))
        config2  == yaml_set_comment_before_after_key(
                        config1, IF i + 1 = Len(config1.repos) THEN i ELSE i + 1)
    IN  [file     |-> dump(config2),
         expected |-> expected,
         raised   |-> <<[kind |-> "Added", hook_id |-> e.hooks[1].id]>>,
         writes   |-> 1,
         idx      |-> <<i>>]

\* mutant: the rev of the existing entry is not copied
ReplacedWithoutPin(config, e, i) ==
    LET config1  == [config EXCEPT !.repos[i + 1] = Node(e)]
        config2  == yaml_set_comment_before_after_key(config1, i + 1)
    IN  [file     |-> dump(config2),
         expected |-> e,
         raised   |-> <<[kind |-> "Updated", hook_id |-> e.hooks[1].id]>>,
         writes   |-> 1,
         idx      |-> <<i>>]

\* mutant: the descriptor is inserted before the existing entry
ReplacedByInsert(config, e, i) ==
    LET existing_rev == config.repos[i + 1].rev
        expected == IF existing_rev # NoRev THEN [e EXCEPT !.rev = existing_rev] ELSE e
        config1  == seq_insert(config, i, Node(expected))
        config2  == yaml_set_comment_before_after_key(config1, i + 1)
    IN  [file     |-> dump(config2),
         expected |-> expected,
         raised   |-> <<[kind |-> "Updated", hook_id |-> e.hooks[1].id]>>,
         writes   |-> 1,
         idx      |-> <<i>>]

Replaced(config, e, i) ==
    LET existing_rev == config.repos[i + 1].rev
        expected == IF existing_rev # NoRev THEN [e EXCEPT !.rev = existing_rev] ELSE e
        config1  == [config EXCEPT !.repos[i + 1] = Node(expected)]
        config2  == yaml_set_comment_before_after_key(config1, i + 1)
    IN  [file     |-> dump(config2),
         expected |-> expected,
         raised   |-> <<[kind |-> "Updated", hook_id |-> e.hooks[1].id]>>,
         writes   |-> 1,
         idx      |-> <<i>>]

update_single_hook_precommit_repo(f, e) ==
    IF ~f.exists THEN Returned(f, e)
    ELSE LET config == load_round_trip_precommit_config(f)
             idx_and_repo == find_repo(config, e.repo)
         IN  IF ~idx_and_repo.found THEN Inserted(config, e)
             ELSE IF ~_is_equivalent_repo(config.repos[idx_and_repo.idx + 1], e)
                  THEN Replaced(config, e, idx_and_repo.idx)
                  ELSE Returned(f, e)

-----------------------------------------------------------------------------
(* Behaviours *)

\* a working tree without any of the other files
NoTree == [path \in {} |-> <<>>]

\* the engine is called directly: no checker runs
NoChecker ==
    /\ tree = NoTree
    /\ checker = ""
    /\ executed = <<>>
    /\ opened = {}

Init ==
    /\ file \in InitFiles
    /\ arg = <<>>
    /\ expected_repo_def = <<>>
    /\ raised = <<>>
    /\ writes = 0
    /\ idx = <<>>
    /\ runs = 0
    /\ NoChecker

\* one call of update_single_hook_precommit_repo with the descriptor e
Call(e) ==
    LET r == update_single_hook_precommit_repo(file, e)
    IN  /\ file' = r.file
        /\ arg' = <<e>>
        /\ expected_repo_def' = <<r.expected>>
        /\ raised' = r.raised
        /\ writes' = r.writes
        /\ idx' = r.idx
        /\ runs' = runs + 1
        /\ UNCHANGED <<tree, checker, executed, opened>>

\* a checker reconciles its descriptor
UpdateSingleHookPrecommitRepo ==
    /\ runs = 0
    /\ \E e \in Descriptors : Call(e)

\* the checker is run again: the same descriptor, either the object the
\* first call was given (as that call left it) or a fresh copy of it
RunAgain ==
    /\ runs = 1
    /\ \E e \in {arg[1], expected_repo_def[1]} : Call(e)

Next == UpdateSingleHookPrecommitRepo \/ RunAgain

Spec == Init /\ [][Next]_vars

-----------------------------------------------------------------------------
(* Behaviours that start from an empty repos list and reconcile            *)
(* descriptors whose URLs do not match one another.                        *)

InitOrder ==
    /\ file = [exists |-> TRUE, repos |-> <<>>, top |-> <<>>]
    /\ arg = <<>>
    /\ expected_repo_def = <<>>
    /\ raised = <<>>
    /\ writes = 0
    /\ idx = <<>>
    /\ runs = 0
    /\ NoChecker

NonMatching(u, v) == ~Search(u, v) /\ ~Search(v, u)

UpdateNextRepo ==
    /\ runs < MaxOrderRuns
    /\ \E e \in Descriptors :
          /\ \A i \in 1..Len(file.repos) : NonMatching(e.repo, file.repos[i].repo)
          /\ Call(e)

NextOrder == UpdateNextRepo

SpecOrder == InitOrder /\ [][NextOrder]_vars

-----------------------------------------------------------------------------
(* update_precommit_hook: reconciliation of one hook of an existing repo   *)

\* the index of the first hook of the id, if there is one
__find_hook_idx(hooks, hook_id) ==
    LET at == {i \in 0..(Len(hooks) - 1) : hooks[i + 1].id = hook_id}
    IN  IF at = {} THEN [found |-> FALSE, idx |-> Len(hooks)]
        ELSE [found |-> TRUE, idx |-> CHOOSE i \in at : \A j \in at : i <= j]

\* the index of the first hook with an id greater than hook_id (as Python
\* compares strings), the length of the list if there is none
__determine_expected_hook_idx(hooks, hook_id) ==
    LET at == {i \in 0..(Len(hooks) - 1) : ~StrLe(hooks[i + 1].id, hook_id)}
    IN  IF at = {} THEN Len(hooks) ELSE CHOOSE i \in at : \A j \in at : i <= j

\* the call returns without raising and without writing
HookReturned(f) ==
    [file |-> f, raised |-> <<>>, writes |-> 0, idx |-> <<>>]

\* mutant: the hook is added and written, and no error is raised
HookInsertedSilently(config, repo_idx, expected_hook) ==
    LET hooks  == config.repos[repo_idx + 1].hooks
        k      == __determine_expected_hook_idx(hooks, expected_hook.id)
        hooks1 == SubSeq(hooks, 1, k) \o <<expected_hook>> \o SubSeq(hooks, k + 1, Len(hooks))
    IN  [file   |-> dump([config EXCEPT !.repos[repo_idx + 1].hooks = hooks1]),
         raised |-> <<>>,
         writes |-> 1,
         idx    |-> <<repo_idx, k>>]

\* the hook is inserted; behind the last hook it takes the place in front of
\* the blank line that followed the entry, and the directive restores it
HookInserted(config, repo_idx, expected_hook) ==
    LET hooks  == config.repos[repo_idx + 1].hooks
        k      == __determine_expected_hook_idx(hooks, expected_hook.id)
        hooks1 == SubSeq(hooks, 1, k) \o <<expected_hook>> \o SubSeq(hooks, k + 1, Len(hooks))
        last   == k = Len(hooks1) - 1
        config1 == [config EXCEPT
                       !.repos[repo_idx + 1].hooks = hooks1,
                       !.repos[repo_idx + 1].trail = IF last THEN FALSE ELSE @]
        config2 == IF last THEN yaml_set_comment_before_after_key(config1, repo_idx + 1)
                   ELSE config1
    IN  [file   |-> dump(config2),
         raised |-> <<[kind |-> "AddedHook", hook_id |-> expected_hook.id]>>,
         writes |-> 1,
         idx    |-> <<repo_idx, k>>]

\* mutant: the expected hook is added and the hook found is kept
HookReplacedByInsert(config, repo_idx, hook_idx, expected_hook) ==
    LET r == HookInserted(config, repo_idx, expected_hook)
    IN  [r EXCEPT !.raised = <<[kind |-> "UpdatedArgs", hook_id |-> expected_hook.id]>>]

\* the hook is replaced; the blank line behind the last hook goes with it
HookReplaced(config, repo_idx, hook_idx, expected_hook) ==
    LET hooks   == config.repos[repo_idx + 1].hooks
        config1 == [config EXCEPT
                       !.repos[repo_idx + 1].hooks[hook_idx + 1] = expected_hook,
                       !.repos[repo_idx + 1].trail =
                           IF hook_idx = Len(hooks) - 1 THEN FALSE ELSE @]
    IN  [file   |-> dump(config1),
         raised |-> <<[kind |-> "UpdatedArgs", hook_id |-> expected_hook.id]>>,
         writes |-> 1,
         idx    |-> <<repo_idx, hook_idx>>]

\* mutant: a missing repo is created for the hook
update_precommit_hook_creating(f, repo_url, expected_hook) ==
    IF ~f.exists THEN HookReturned(f)
    ELSE LET config == load_round_trip_precommit_config(f)
             idx_and_repo == find_repo(config, repo_url)
         IN  IF ~idx_and_repo.found
             THEN Inserted(config, [repo |-> repo_url, rev |-> NoRev,
                                    hooks |-> <<expected_hook>>])
             ELSE LET repo_idx == idx_and_repo.idx
                      hooks    == config.repos[repo_idx + 1].hooks
                      hook_idx == __find_hook_idx(hooks, expected_hook.id)
                  IN  IF ~hook_idx.found
                      THEN HookInserted(config, repo_idx, expected_hook)
                      ELSE IF hooks[hook_idx.idx + 1] # expected_hook
                           THEN HookReplaced(config, repo_idx, hook_idx.idx, expected_hook)
                           ELSE HookReturned(f)

update_precommit_hook(f, repo_url, expected_hook) ==
    IF ~f.exists THEN HookReturned(f)
    ELSE LET config == load_round_trip_precommit_config(f)
             idx_and_repo == find_repo(config, repo_url)
         IN  IF ~idx_and_repo.found THEN HookReturned(f)
             ELSE LET repo_idx == idx_and_repo.idx
                      hooks    == config.repos[repo_idx + 1].hooks
                      hook_idx == __find_hook_idx(hooks, expected_hook.id)
                  IN  IF ~hook_idx.found
                      THEN HookInserted(config, repo_idx, expected_hook)
                      ELSE IF hooks[hook_idx.idx + 1] # expected_hook
                           THEN HookReplaced(config, repo_idx, hook_idx.idx, expected_hook)
                           ELSE HookReturned(f)

\* hook lists of a hand-written file: sorted, unsorted, with an id twice
HookFileHooks ==
    {<<[id |-> <<"a">>, args |-> "x"]>>,
     <<[id |-> <<"c">>, args |-> "-"]>>,
     <<[id |-> <<"a">>, args |-> "-"], [id |-> <<"c">>, args |-> "-"]>>,
     <<[id |-> <<"c">>, args |-> "-"], [id |-> <<"B">>, args |-> "-"]>>,
     <<[id |-> <<"a">>, args |-> "-"], [id |-> <<"a">>, args |-> "x"]>>}

HookInitFiles ==
    {NoFile} \cup
    UNION {{[exists |-> TRUE, repos |-> s, top |-> t] :
               s \in [1..n -> {[repo |-> r.repo, rev |-> r.rev, hooks |-> hs, blank |-> b] :
                                  r \in {[repo |-> <<"a">>, rev |-> "v1"],
                                         [repo |-> <<"a", "b">>, rev |-> NoRev]},
                                  hs \in HookFileHooks}],
               t \in TopLevel} :
            n \in 0..MaxInitRepos, b \in BOOLEAN}

\* one call of update_precommit_hook
CallHook(repo_url, expected_hook) ==
    LET r == update_precommit_hook(file, repo_url, expected_hook)
    IN  /\ file' = r.file
        /\ arg' = <<repo_url, expected_hook>>
        /\ expected_repo_def' = <<>>
        /\ raised' = r.raised
        /\ writes' = r.writes
        /\ idx' = r.idx
        /\ runs' = runs + 1
        /\ UNCHANGED <<tree, checker, executed, opened>>

\* a checker reconciles its hook
UpdatePrecommitHook ==
    /\ runs = 0
    /\ \E u \in {<<"a">>, <<"b">>, <<"c">>},
          h \in {[id |-> i, args |-> "-"] : i \in HookIds} \cup {[id |-> <<"a">>, args |-> "x"]} :
          CallHook(u, h)

\* the checker is run again with the same arguments
UpdatePrecommitHookAgain ==
    /\ runs = 1
    /\ Len(arg) = 2
    /\ CallHook(arg[1], arg[2])

\* the repo checker is run again
UpdateSingleHookPrecommitRepoAgain ==
    /\ Len(arg) = 1
    /\ RunAgain

\* PrecommitConfig.load: the data of the document, or an error
PrecommitConfig_load(f) ==
    IF ~f.exists
    THEN [raised |-> <<[kind |-> "NoConfig"]>>, config |-> <<>>]
    ELSE [raised |-> <<>>,
          config |-> <<[repos |-> [i \in 1..Len(f.repos) |->
                                      [repo  |-> f.repos[i].repo,
                                       rev   |-> f.repos[i].rev,
                                       hooks |-> f.repos[i].hooks]]]>>]

\* PrecommitConfig.get_repo_index
PrecommitConfig_get_repo_index(config, search_pattern) ==
    LET r == FirstMatch(config.repos, search_pattern, 0)
    IN  IF r.found THEN <<r.idx>> ELSE <<>>

\* PrecommitConfig.find_repo
PrecommitConfig_find_repo(config, search_pattern) ==
    LET r == FirstMatch(config.repos, search_pattern, 0)
    IN  IF r.found THEN <<config.repos[r.idx + 1]>> ELSE <<>>

\* a checker loads the document to read it
LoadPrecommitConfig ==
    /\ runs = 0
    /\ raised' = PrecommitConfig_load(file).raised
    /\ executed' = <<"PrecommitConfig.load">>
    /\ runs' = runs + 1
    /\ writes' = 0
    /\ UNCHANGED <<file, arg, expected_repo_def, idx, tree, checker, opened>>

InitEngine ==
    /\ file \in InitFiles \cup HookInitFiles
    /\ arg = <<>>
    /\ expected_repo_def = <<>>
    /\ raised = <<>>
    /\ writes = 0
    /\ idx = <<>>
    /\ runs = 0
    /\ NoChecker

NextEngine ==
    \/ UpdateSingleHookPrecommitRepo
    \/ UpdateSingleHookPrecommitRepoAgain
    \/ UpdatePrecommitHook
    \/ UpdatePrecommitHookAgain
    \/ LoadPrecommitConfig

\* both operations of the engine, on the files of both
SpecEngine == InitEngine /\ [][NextEngine]_vars

-----------------------------------------------------------------------------
(* add_badge and remove_badge on README.md.  The content of the file is a  *)
(* string; "B" stands for the text of the badge, "<" for a character of    *)
(* "<br>" and "<br />", "t" for any other character.                       *)

MaxReadmeLen == 4

ReadmePath == "README.md"

\* the characters str.strip("<br>") and str.strip("<br />") remove
BrChars == {"<"}

Readmes == UNION {[1..n -> {"#", "\n", "t", "B", "<"}] : n \in 0..MaxReadmeLen}

\* a working tree with README.md of the given content
WithReadme(content) == [path \in {ReadmePath} |-> content]

\* stream.readlines(): the lines, each with its "\n"
RECURSIVE readlines(_)
readlines(s) ==
    IF s = <<>> THEN <<>>
    ELSE LET ends == {i \in 1..Len(s) : s[i] = "\n"}
             n    == IF ends = {} THEN Len(s)
                     ELSE CHOOSE i \in ends : \A j \in ends : i <= j
         IN  <<SubSeq(s, 1, n)>> \o readlines(SubSeq(s, n + 1, Len(s)))

\* stream.writelines(lines)
RECURSIVE writelines(_)
writelines(lines) ==
    IF lines = <<>> THEN <<>> ELSE Head(lines) \o writelines(Tail(lines))

\* str.strip(chars)
RECURSIVE strip(_, _)
strip(s, chars) ==
    IF s = <<>> THEN s
    ELSE IF s[1] \in chars THEN strip(Tail(s), chars)
    ELSE IF s[Len(s)] \in chars THEN strip(SubSeq(s, 1, Len(s) - 1), chars)
    ELSE s

\* the value of insert_position after the loop over enumerate(lines)
insert_position(lines) ==
    LET titles == {i \in 0..(Len(lines) - 1) :
                         lines[i + 1] # <<>> /\ lines[i + 1][1] = "#"}
    IN  IF titles = {} THEN IF lines = <<>> THEN 0 ELSE Len(lines) - 1
        ELSE CHOOSE i \in titles : \A j \in titles : i <= j

\* list.insert(i, x)
list_insert(lines, i, x) ==
    SubSeq(lines, 1, i) \o <<x>> \o SubSeq(lines, i + 1, Len(lines))

\* the outcome of a call on the tree t: the tree it leaves, the error
BadgeResult(t, r, w) == [tree |-> t, raised |-> r, writes |-> w]

\* mutant: without a title the badge is written at the end of the file
AddMissingBadgeAtEnd(t, lines, badge) ==
    LET pos == insert_position(lines)
    IN  IF Len(lines) = 0 \/ pos = Len(lines) - 1
        THEN BadgeResult(WithReadme(writelines(lines) \o <<"\n">> \o badge),
                         <<[kind |-> "NoTitle"]>>, 1)
        ELSE BadgeResult(
                 WithReadme(writelines(list_insert(lines, pos + 1, <<"\n">> \o badge))),
                 <<[kind |-> "Fixed"]>>, 1)

\* the part of both add_badge functions that follows the search of the badge
AddMissingBadge(t, lines, badge) ==
    LET pos == insert_position(lines)
    IN  IF Len(lines) = 0 \/ pos = Len(lines) - 1
        THEN BadgeResult(t, <<[kind |-> "NoTitle"]>>, 0)
        ELSE BadgeResult(
                 WithReadme(writelines(list_insert(lines, pos + 1, <<"\n">> \o badge))),
                 <<[kind |-> "Fixed"]>>, 1)

\* repoma.utilities.add_badge
add_badge(t, badge) ==
    IF ReadmePath \notin DOMAIN t
    THEN BadgeResult(t, <<[kind |-> "NoReadme"]>>, 0)
    ELSE LET lines == readlines(t[ReadmePath])
             stripped_lines ==
                 {strip(strip(strip(lines[i], {"\n"}), BrChars), BrChars) :
                     i \in 1..Len(lines)}
         IN  IF badge \in stripped_lines THEN BadgeResult(t, <<>>, 0)
             ELSE AddMissingBadge(t, lines, badge)

\* repoma.pre_commit_hooks.check_dev_files._helpers.add_badge
helpers_add_badge(t, badge_line) ==
    IF ReadmePath \notin DOMAIN t
    THEN BadgeResult(t, <<[kind |-> "NoReadme"]>>, 0)
    ELSE LET lines == readlines(t[ReadmePath])
         IN  IF \E i \in 1..Len(lines) : lines[i] = badge_line
             THEN BadgeResult(t, <<>>, 0)
             ELSE AddMissingBadge(t, lines, badge_line)

\* list.remove(x): without the first element equal to x
list_remove(lines, x) ==
    LET i == CHOOSE i \in 1..Len(lines) :
                 lines[i] = x /\ \A j \in 1..(i - 1) : lines[j] # x
    IN  SubSeq(lines, 1, i - 1) \o SubSeq(lines, i + 1, Len(lines))

\* re.match(badge_pattern, line)
re_match(pattern, line) == MatchAt(Compile(pattern), 1, line, 1)

\* remove_badge (the two modules have the same function)
remove_badge(t, badge_pattern) ==
    IF ReadmePath \notin DOMAIN t
    THEN BadgeResult(t, <<[kind |-> "NoReadme"]>>, 0)
    ELSE LET lines == readlines(t[ReadmePath])
             found == {i \in 1..Len(lines) : re_match(badge_pattern, lines[i])}
         IN  IF found = {} THEN BadgeResult(t, <<>>, 0)
             ELSE LET badge_line == lines[CHOOSE i \in found : \A j \in found : i <= j]
                  IN  BadgeResult(WithReadme(writelines(list_remove(lines, badge_line))),
                                  <<[kind |-> "Removed"]>>, 1)

\* the badge as cspell.py passes it, and as a line
Badges == {<<"B">>, <<"B", "\n">>}

BadgeFunctions == {"add_badge", "helpers_add_badge", "remove_badge"}

\* the call of the function of the given name
BadgeFunction(name, t, b) ==
    CASE name = "add_badge"         -> add_badge(t, b)
      [] name = "helpers_add_badge" -> helpers_add_badge(t, b)
      [] name = "remove_badge"      -> remove_badge(t, b)

\* one call of a badge function
CallBadge(name, b) ==
    LET r == BadgeFunction(name, tree, b)
    IN  /\ tree' = r.tree
        /\ raised' = r.raised
        /\ writes' = r.writes
        /\ arg' = <<b>>
        /\ executed' = <<name>>
        /\ opened' = IF ReadmePath \in DOMAIN tree THEN {ReadmePath} ELSE {}
        /\ runs' = runs + 1
        /\ UNCHANGED <<file, expected_repo_def, idx, checker>>

AddBadge ==
    /\ runs = 0
    /\ \E b \in Badges : CallBadge("add_badge", b)

HelpersAddBadge ==
    /\ runs = 0
    /\ \E b \in Badges : CallBadge("helpers_add_badge", b)

RemoveBadge ==
    /\ runs = 0
    /\ CallBadge("remove_badge", <<"B">>)

\* the same function is called again with the same argument
BadgeAgain ==
    /\ runs = 1
    /\ CallBadge(executed[1], arg[1])

InitBadge ==
    /\ file = NoFile
    /\ arg = <<>>
    /\ expected_repo_def = <<>>
    /\ raised = <<>>
    /\ writes = 0
    /\ idx = <<>>
    /\ runs = 0
    /\ tree \in {NoTree} \cup {WithReadme(c) : c \in Readmes}
    /\ checker = ""
    /\ executed = <<>>
    /\ opened = {}

NextBadge == AddBadge \/ HelpersAddBadge \/ RemoveBadge \/ BadgeAgain

SpecBadge == InitBadge /\ [][NextBadge]_vars

-----------------------------------------------------------------------------
(* The checkers.  A checker works on the files of the working tree: the    *)
(* world is .pre-commit-config.yaml (file), the other files by path (tree),*)
(* the files opened so far, the error of the last sub-check and the number *)
(* of writes.  A sub-check maps a world to the world it leaves.            *)

\* the paths of the configuration files
CONFIG_PATH ==
    [cspell            |-> ".cspell.json",
     editor_config     |-> ".editorconfig",
     precommit         |-> ".pre-commit-config.yaml",
     prettier_ignore   |-> ".prettierignore",
     pyproject         |-> "pyproject.toml",
     setup_cfg         |-> "setup.cfg",
     vscode_extensions |-> ".vscode/extensions.json"]

\* the world a checker starts in
World(f, t) == [file |-> f, tree |-> t, opened |-> {}, raised |-> <<>>, writes |-> 0]

\* the sub-check raises PrecommitError
Raise(w, kind) == [w EXCEPT !.raised = <<[kind |-> kind]>>]

\* open(path): the file is read
Open(w, path) == [w EXCEPT !.opened = @ \cup {path}]

\* open(path, "w"): the file is written with the content
Write(w, path, content) ==
    [w EXCEPT !.tree = [p \in DOMAIN @ \cup {path} |-> IF p = path THEN content ELSE @[p]],
              !.opened = @ \cup {path},
              !.writes = @ + 1]

\* a call of the engine by a sub-check: r is what the engine returned
Engine(w, r) ==
    [w EXCEPT !.file   = r.file,
              !.opened = IF w.file.exists THEN @ \cup {CONFIG_PATH.precommit} ELSE @,
              !.raised = r.raised,
              !.writes = @ + r.writes]

\* Executor: the state of the checker between two sub-checks
Executor(w) == [w |-> w, error_messages |-> <<>>, executed |-> <<>>, aborted |-> FALSE]

\* executor(function): the sub-check runs, its PrecommitError is collected;
\* the ParsingError of ConfigParser is no PrecommitError
Executed(exec, name, r) ==
    IF exec.aborted THEN exec
    ELSE [w              |-> [r EXCEPT !.raised = <<>>],
          error_messages |-> exec.error_messages \o r.raised,
          executed       |-> Append(exec.executed, name),
          aborted        |-> r.raised # <<>> /\ r.raised[1].kind = "ParsingError"]

\* a sub-check called without the executor: its error ends the checker
Direct(exec, name, r) ==
    IF exec.aborted THEN exec
    ELSE [w              |-> [r EXCEPT !.raised = <<>>],
          error_messages |-> exec.error_messages \o r.raised,
          executed       |-> Append(exec.executed, name),
          aborted        |-> r.raised # <<>>]

-----------------------------------------------------------------------------
(* check_dev_files/black.py *)

\* dict.get(key, default) on a table: a sequence of [key, value]
Get(table, key, default) ==
    LET at == {i \in 1..Len(table) : table[i].key = key}
    IN  IF at = {} THEN default ELSE table[CHOOSE i \in at : TRUE].value

\* the order of natural_sorting on the option names, which have no digits:
\* the order of the strings
KeyRank(key) ==
    CASE key = "line-length"    -> 1
      [] key = "preview"        -> 2
      [] key = "target-version" -> 3

\* sorted(s, key=...): the elements of s in the order of their ranks (rank is
\* a function on the elements), equal ranks in the order of s
RECURSIVE Sorted(_, _)
Sorted(s, rank) ==
    IF s = <<>> THEN <<>>
    ELSE LET m == CHOOSE i \in 1..Len(s) :
                      \A j \in 1..Len(s) :
                          rank[s[i]] < rank[s[j]] \/ (rank[s[i]] = rank[s[j]] /\ i <= j)
         IN  <<s[m]>> \o Sorted(SubSeq(s, 1, m - 1) \o SubSeq(s, m + 1, Len(s)), rank)

\* "py" + s.replace(".", "")
TargetVersion(s) ==
    CASE s = "3.7"  -> "py37"
      [] s = "3.10" -> "py310"

\* the order of the strings "py310" < "py37"
TargetRank(v) ==
    CASE v = "py310" -> 1
      [] v = "py37"  -> 2

\* get_supported_python_versions: the versions of the classifiers of
\* setup.cfg, or the error
get_supported_python_versions(w) ==
    IF CONFIG_PATH.setup_cfg \notin DOMAIN w.tree THEN Raise(w, "NoSetupCfg")
    ELSE IF w.tree[CONFIG_PATH.setup_cfg] = <<>> THEN Raise(Open(w, CONFIG_PATH.setup_cfg), "NoClassifiers")
    ELSE Open(w, CONFIG_PATH.setup_cfg)

\* _load_black_config: the table tool.black of pyproject.toml
_load_black_config(w) == w.tree[CONFIG_PATH.pyproject].black

_check_line_length(w, config) ==
    IF Get(config, "line-length", <<>>) # <<>> THEN Raise(w, "LineLength") ELSE w

_check_activate_preview(w, config) ==
    IF Get(config, "preview", <<>>) # <<"true">> THEN Raise(w, "Preview") ELSE w

_check_option_ordering(w, config) ==
    LET options == [i \in 1..Len(config) |-> config[i].key]
    IN  IF Sorted(options, [k \in {options[i] : i \in 1..Len(options)} |-> KeyRank(k)]) # options
        THEN Raise(w, "Ordering") ELSE w

_check_target_versions(w, config) ==
    LET target_versions == Get(config, "target-version", <<>>)
        w1 == get_supported_python_versions(w)
    IN  IF w1.raised # <<>> THEN w1
        ELSE LET supported == w.tree[CONFIG_PATH.setup_cfg]
                 targets == [i \in 1..Len(supported) |-> TargetVersion(supported[i])]
                 expected_target_versions ==
                     Sorted(targets,
                            [v \in {targets[i] : i \in 1..Len(targets)} |-> TargetRank(v)])
             IN  IF target_versions # expected_target_versions
                 THEN Raise(w1, "TargetVersions")
                 ELSE w1

\* "c" stands for the URL of nbQA
_check_pyproject(w) ==
    IF ~w.file.exists THEN w
    ELSE LET config == load_round_trip_precommit_config(w.file)
             w1 == Open(w, CONFIG_PATH.precommit)
         IN  IF ~find_repo(config, <<"c">>).found THEN w1
             ELSE LET w2 == Open(w1, CONFIG_PATH.pyproject)
                  IN  IF w.tree[CONFIG_PATH.pyproject].nbqa # <<"--line-length=85">>
                      THEN Raise(w2, "NbqaLineLength")
                      ELSE w2

\* "b" stands for the URL of black and for the id of its hook
_update_precommit_repo(w) ==
    Engine(w, update_single_hook_precommit_repo(
                  w.file, [repo |-> <<"b">>, rev |-> NoRev,
                           hooks |-> <<[id |-> <<"b">>, args |-> "-"]>>]))

_update_precommit_nbqa_hook(w) ==
    Engine(w, update_precommit_hook(w.file, <<"c">>, [id |-> <<"c">>, args |-> "x"]))

\* black.main
black_main(w) ==
    IF CONFIG_PATH.pyproject \notin DOMAIN w.tree THEN Executor(w)
    ELSE LET config == _load_black_config(w)
             e0 == Executor(Open(w, CONFIG_PATH.pyproject))
             e1 == Executed(e0, "_check_line_length", _check_line_length(e0.w, config))
             e2 == Executed(e1, "_check_activate_preview", _check_activate_preview(e1.w, config))
             e3 == Executed(e2, "_check_option_ordering", _check_option_ordering(e2.w, config))
             e4 == Executed(e3, "_check_target_versions", _check_target_versions(e3.w, config))
             e5 == Executed(e4, "_check_pyproject", _check_pyproject(e4.w))
             e6 == Executed(e5, "_update_precommit_repo", _update_precommit_repo(e5.w))
         IN  Executed(e6, "_update_precommit_nbqa_hook", _update_precommit_nbqa_hook(e6.w))

-----------------------------------------------------------------------------
(* repoma check_dev_files/editorconfig.py *)

EditorconfigUrl == <<"a">>

\* __get_expected_hook_definition
EditorconfigRepo ==
    [repo |-> EditorconfigUrl, rev |-> "", hooks |-> <<[id |-> <<"a">>, args |-> "x"]>>]

\* __determine_expected_index: the first entry whose first hook has an id
\* not before the id of the checker
editorconfig_determine_expected_index(config) ==
    LET repos == config.repos
        at == {i \in 0..(Len(repos) - 1) :
                  StrLe(Lower(EditorconfigRepo.hooks[1].id), Lower(repos[i + 1].hooks[1].id))}
    IN  IF at = {} THEN Len(repos) ELSE CHOOSE i \in at : \A j \in at : i <= j

\* __is_equivalent
editorconfig_is_equivalent(expected, existing) == remove_rev(expected) = remove_rev(existing)

_update_precommit_config(w) ==
    IF ~w.file.exists THEN w
    ELSE LET expected_hook == EditorconfigRepo
             existing_config == load_round_trip_precommit_config(w.file)
             idx_and_repo == find_repo(existing_config, EditorconfigUrl)
             w1 == Open(w, CONFIG_PATH.precommit)
         IN  IF ~idx_and_repo.found
             THEN LET i  == editorconfig_determine_expected_index(existing_config)
                      c1 == seq_insert(existing_config, i, Node(expected_hook))
                      c2 == yaml_set_comment_before_after_key(
                                c1, IF i + 1 = Len(c1.repos) THEN i ELSE i + 1)
                  IN  Raise([w1 EXCEPT !.file = dump(c2), !.writes = @ + 1], "AddedEditorconfig")
             ELSE LET i  == idx_and_repo.idx
                      existing_hook == existing_config.repos[i + 1]
                  IN  IF ~editorconfig_is_equivalent(existing_hook, expected_hook)
                      THEN LET expected == IF existing_hook.rev # NoRev
                                           THEN [expected_hook EXCEPT !.rev = existing_hook.rev]
                                           ELSE expected_hook
                               c1 == [existing_config EXCEPT !.repos[i + 1] = Node(expected)]
                               c2 == yaml_set_comment_before_after_key(c1, i + 1)
                           IN  Raise([w1 EXCEPT !.file = dump(c2), !.writes = @ + 1],
                                     "UpdatedEditorconfig")
                      ELSE w1

\* mutant: the hook is reconciled whether .editorconfig exists or not
editorconfig_main_ungated(w) ==
    Direct(Executor(w), "_update_precommit_config", _update_precommit_config(w))

\* editorconfig.main
editorconfig_main(w) ==
    IF CONFIG_PATH.editor_config \in DOMAIN w.tree
    THEN Direct(Executor(w), "_update_precommit_config", _update_precommit_config(w))
    ELSE Executor(w)

-----------------------------------------------------------------------------
(* .vscode/extensions.json *)

\* the content without the key "recommendations"
NoRecommendations == [recommendations |-> <<>>]

\* config.get("recommendations", [])
Recommendations(content) ==
    IF content.recommendations = <<>> THEN <<>> ELSE content.recommendations[1]

add_vscode_extension_recommendation(w, extension_name) ==
    LET exists == CONFIG_PATH.vscode_extensions \in DOMAIN w.tree
        w1     == IF exists THEN Open(w, CONFIG_PATH.vscode_extensions) ELSE w
        config == IF exists THEN w.tree[CONFIG_PATH.vscode_extensions] ELSE NoRecommendations
        recommended_extensions == Recommendations(config)
    IN  IF \A i \in 1..Len(recommended_extensions) : recommended_extensions[i] # extension_name
        THEN Raise(Write(w1, CONFIG_PATH.vscode_extensions,
                         [config EXCEPT !.recommendations =
                              <<Append(recommended_extensions, extension_name)>>]),
                   "AddedExtension")
        ELSE w1

remove_vscode_extension_recommendation(w, extension_name) ==
    IF CONFIG_PATH.vscode_extensions \notin DOMAIN w.tree THEN w
    ELSE LET w1     == Open(w, CONFIG_PATH.vscode_extensions)
             config == w.tree[CONFIG_PATH.vscode_extensions]
             recommended_extensions == Recommendations(config)
         IN  IF \E i \in 1..Len(recommended_extensions) : recommended_extensions[i] = extension_name
             THEN Raise(Write(w1, CONFIG_PATH.vscode_extensions,
                              [config EXCEPT !.recommendations =
                                   <<list_remove(recommended_extensions, extension_name)>>]),
                        "RemovedExtension")
             ELSE w1

-----------------------------------------------------------------------------
(* compwa_policy check_dev_files/toml.py *)

TaploPath == ".taplo.toml"
IncorrectTaploPath == "taplo.toml"

_rename_taplo_config(w) ==
    IF IncorrectTaploPath \notin DOMAIN w.tree THEN w
    ELSE Raise([w EXCEPT !.tree =
                    [p \in (DOMAIN @ \ {IncorrectTaploPath}) \cup {TaploPath} |->
                        IF p = TaploPath THEN @[IncorrectTaploPath] ELSE @[p]]],
               "RenamedTaplo")

\* the content of the template is "expected"
_update_taplo_config(w) ==
    IF TaploPath \notin DOMAIN w.tree
    THEN Raise(Write(w, TaploPath, "expected"), "AddedTaplo")
    ELSE LET w1 == Open(w, TaploPath)
         IN  IF w.tree[TaploPath] # "expected"
             THEN Raise(Write(w1, TaploPath, "expected"), "UpdatedTaplo")
             ELSE w1

toml_update_precommit_repo(w) ==
    Engine(w, update_single_hook_precommit_repo(
                  w.file, [repo |-> <<"b">>, rev |-> "",
                           hooks |-> <<[id |-> <<"b">>, args |-> "-"]>>]))

\* ModifiablePyproject: the table tool.tomlsort is set when it differs
_update_tomlsort_config(w) ==
    IF CONFIG_PATH.pyproject \notin DOMAIN w.tree THEN Raise(w, "NoPyproject")
    ELSE LET w1 == Open(w, CONFIG_PATH.pyproject)
             pyproject == w.tree[CONFIG_PATH.pyproject]
         IN  IF pyproject.tomlsort = <<"expected">> THEN w1
             ELSE Raise(Write(w1, CONFIG_PATH.pyproject, [pyproject EXCEPT !.tomlsort = <<"expected">>]),
                        "UpdatedTomlsort")

_update_tomlsort_hook(w) ==
    Engine(w, update_single_hook_precommit_repo(
                  w.file, [repo |-> <<"c">>, rev |-> "",
                           hooks |-> <<[id |-> <<"c">>, args |-> "x"]>>]))

_update_vscode_extensions(w) ==
    LET e0 == Executor(w)
        e1 == Executed(e0, "add_extension_recommendation",
                       add_vscode_extension_recommendation(e0.w, "even-better-toml"))
        e2 == Executed(e1, "remove_extension_recommendation",
                       remove_vscode_extension_recommendation(e1.w, "better-toml"))
    IN  [e2.w EXCEPT !.raised = e2.error_messages]

\* toml.main
toml_main(w) ==
    IF \A f \in {CONFIG_PATH.pyproject, TaploPath, IncorrectTaploPath} : f \notin DOMAIN w.tree
    THEN Executor(w)
    ELSE LET e0 == Executor(w)
             e1 == Executed(e0, "_rename_taplo_config", _rename_taplo_config(e0.w))
             e2 == Executed(e1, "_update_taplo_config", _update_taplo_config(e1.w))
             e3 == Executed(e2, "_update_precommit_repo", toml_update_precommit_repo(e2.w))
             e4 == Executed(e3, "_update_tomlsort_config", _update_tomlsort_config(e3.w))
             e5 == Executed(e4, "_update_tomlsort_hook", _update_tomlsort_hook(e4.w))
         IN  Executed(e5, "_update_vscode_extensions", _update_vscode_extensions(e5.w))

-----------------------------------------------------------------------------
(* check_dev_files/cspell.py *)

\* __REPO_URL, and the pattern of the old URL: ".*/mirrors-cspell" is found
\* in a URL exactly when "/mirrors-cspell" is, for which "m" stands
CspellUrl == <<"s">>
OldUrlPattern == <<"m">>

\* the hook of the expected form: the id and no other key
CspellHook == [id |-> <<"c">>, args |-> "-"]

VscodeExtensionName == "code-spell-checker"

\* lines of .editorconfig and of .prettierignore
CspellLine == ".cspell.json\n"
SectionLine == "[.cspell.json]\n"

\* rename_config
rename_config(w, old, new) ==
    IF old \notin DOMAIN w.tree THEN w
    ELSE Raise([w EXCEPT !.tree = [p \in (DOMAIN @ \ {old}) \cup {new} |->
                                      IF p = new THEN @[old] ELSE @[p]]],
               "Renamed")

\* PrecommitConfig.load() in a sub-check
Load(w) ==
    IF PrecommitConfig_load(w.file).raised # <<>> THEN Raise(w, "NoConfig")
    ELSE Open(w, CONFIG_PATH.precommit)

_check_hook_url(w) ==
    LET w1 == Load(w)
    IN  IF w1.raised # <<>> THEN w1
        ELSE IF PrecommitConfig_find_repo(PrecommitConfig_load(w.file).config[1],
                                          OldUrlPattern) # <<>>
             THEN Raise(w1, "OldUrl")
             ELSE w1

_check_check_hook_options(w) ==
    LET w1 == Load(w)
    IN  IF w1.raised # <<>> THEN w1
        ELSE LET repo == PrecommitConfig_find_repo(PrecommitConfig_load(w.file).config[1],
                                                   CspellUrl)
             IN  IF repo = <<>> THEN Raise(w1, "MissingRepo")
                 ELSE IF repo[1].rev = NoRev \/ repo[1].hooks # <<CspellHook>>
                      THEN Raise(w1, "HookForm")
                      ELSE w1

\* mutant: sorted(content), the words compared as written
RECURSIVE sort_section_as_written(_)
sort_section_as_written(content) ==
    IF content = <<>> THEN <<>>
    ELSE LET m == CHOOSE i \in 1..Len(content) :
                      /\ \A j \in 1..Len(content) : StrLe(content[i], content[j])
                      /\ \A j \in 1..(i - 1) : content[j] # content[i]
         IN  <<content[m]>> \o
             sort_section_as_written(
                 SubSeq(content, 1, m - 1) \o SubSeq(content, m + 1, Len(content)))

\* sorted(content, key=lambda s: s.lower()): a stable sort
RECURSIVE sort_section(_)
sort_section(content) ==
    IF content = <<>> THEN <<>>
    ELSE LET m == CHOOSE i \in 1..Len(content) :
                      /\ \A j \in 1..Len(content) : StrLe(Lower(content[i]), Lower(content[j]))
                      /\ \A j \in 1..(i - 1) : Lower(content[j]) # Lower(content[i])
         IN  <<content[m]>> \o
             sort_section(SubSeq(content, 1, m - 1) \o SubSeq(content, m + 1, Len(content)))

\* the content of a file that holds "{}"
EmptyCspellConfig == [language |-> <<>>, words |-> <<>>, ignoreWords |-> <<>>]

\* the template has the language "en-US"
_fix_config_content(w) ==
    LET w1 == IF CONFIG_PATH.cspell \notin DOMAIN w.tree
              THEN Write(w, CONFIG_PATH.cspell, EmptyCspellConfig)
              ELSE w
        w2     == Open(w1, CONFIG_PATH.cspell)
        config == w1.tree[CONFIG_PATH.cspell]
        fixed  == [language    |-> <<"en-US">>,
                   words       |-> IF config.words = <<>> THEN <<(<<>>)>> ELSE config.words,
                   ignoreWords |-> IF config.ignoreWords = <<>> THEN <<(<<>>)>>
                                   ELSE config.ignoreWords]
    IN  IF fixed # config THEN Raise(Write(w2, CONFIG_PATH.cspell, fixed), "FixedSections")
        ELSE w2

_sort_config_entries(w) ==
    LET w1     == Open(w, CONFIG_PATH.cspell)
        config == w.tree[CONFIG_PATH.cspell]
        sorted == [config EXCEPT
                      !.words       = IF @ = <<>> THEN @ ELSE <<sort_section(@[1])>>,
                      !.ignoreWords = IF @ = <<>> THEN @ ELSE <<sort_section(@[1])>>]
    IN  IF sorted # config THEN Raise(Write(w1, CONFIG_PATH.cspell, sorted), "SortedSections")
        ELSE w1

\* mutant: a missing section is written to .editorconfig
_check_editor_config_fixing(w) ==
    IF CONFIG_PATH.editor_config \notin DOMAIN w.tree THEN w
    ELSE LET w1    == Open(w, CONFIG_PATH.editor_config)
             lines == w.tree[CONFIG_PATH.editor_config]
         IN  IF \E i \in 1..Len(lines) : lines[i] = CspellLine
             THEN Raise(w1, "ParsingError")
             ELSE IF \A i \in 1..Len(lines) : lines[i] # SectionLine
                  THEN Raise(Write(w1, CONFIG_PATH.editor_config,
                                   lines \o <<SectionLine, "indent_size = 4\n">>),
                             "NoSection")
                  ELSE IF LET at == CHOOSE i \in 1..Len(lines) : lines[i] = SectionLine
                          IN  {lines[i] : i \in (at + 1)..Len(lines)} # {"indent_size = 4\n"}
                       THEN Raise(w1, "SectionOptions")
                       ELSE w1

_check_editor_config(w) ==
    IF CONFIG_PATH.editor_config \notin DOMAIN w.tree THEN w
    ELSE LET w1    == Open(w, CONFIG_PATH.editor_config)
             lines == w.tree[CONFIG_PATH.editor_config]
         IN  IF \E i \in 1..Len(lines) : lines[i] = CspellLine
             THEN Raise(w1, "ParsingError")
             ELSE IF \A i \in 1..Len(lines) : lines[i] # SectionLine
                  THEN Raise(w1, "NoSection")
                  ELSE IF LET at == CHOOSE i \in 1..Len(lines) : lines[i] = SectionLine
                          IN  {lines[i] : i \in (at + 1)..Len(lines)} # {"indent_size = 4\n"}
                       THEN Raise(w1, "SectionOptions")
                       ELSE w1

_update_prettier_ignore(w) ==
    LET w1 == Load(w)
    IN  IF w1.raised # <<>> THEN w1
        ELSE IF PrecommitConfig_find_repo(PrecommitConfig_load(w.file).config[1],
                                          CspellUrl) = <<>>
             THEN w1
             ELSE IF CONFIG_PATH.prettier_ignore \notin DOMAIN w.tree
                  THEN Raise(Write(w1, CONFIG_PATH.prettier_ignore, <<CspellLine>>), "AddedIgnore")
                  ELSE LET content == w.tree[CONFIG_PATH.prettier_ignore]
                           w2      == Open(w1, CONFIG_PATH.prettier_ignore)
                       IN  IF \E i \in 1..Len(content) : content[i] = CspellLine
                           THEN w2
                           ELSE Raise(Write(w2, CONFIG_PATH.prettier_ignore, <<CspellLine>>),
                                      "AddedIgnore")

\* a call of add_badge or remove_badge by a sub-check: r is its outcome
Badge(w, r) ==
    LET w1 == IF ReadmePath \in DOMAIN w.tree THEN Open(w, ReadmePath) ELSE w
        w2 == IF r.writes = 1 THEN Write(w1, ReadmePath, r.tree[ReadmePath]) ELSE w1
    IN  [w2 EXCEPT !.raised = r.raised]

\* the part of the tree the badge functions work on
ReadmeOf(w) ==
    IF ReadmePath \in DOMAIN w.tree THEN WithReadme(w.tree[ReadmePath]) ELSE NoTree

_remove_configuration(exec) ==
    LET w  == exec.w
        e1 == Direct(exec, "remove .cspell.json",
                     IF CONFIG_PATH.cspell \in DOMAIN w.tree
                     THEN Raise([w EXCEPT !.tree = [p \in DOMAIN @ \ {CONFIG_PATH.cspell} |-> @[p]]],
                                "RemovedConfig")
                     ELSE w)
        w1 == e1.w
        e2 == Direct(e1, "remove line of .editorconfig",
                     IF CONFIG_PATH.editor_config \in DOMAIN w1.tree
                     THEN LET content == w1.tree[CONFIG_PATH.editor_config]
                              w2      == Open(w1, CONFIG_PATH.editor_config)
                          IN  IF \E i \in 1..Len(content) : content[i] = CspellLine
                              THEN Raise(Write(w2, CONFIG_PATH.editor_config,
                                               list_remove(content, CspellLine)),
                                         "RemovedLine")
                              ELSE w2
                     ELSE w1)
        e3 == Executed(e2, "remove_badge", Badge(e2.w, remove_badge(ReadmeOf(e2.w), <<"B">>)))
    IN  Executed(e3, "remove_vscode_extension_recommendation",
                 remove_vscode_extension_recommendation(e3.w, VscodeExtensionName))

\* cspell.main
cspell_main(w) ==
    LET e0 == Executor(w)
        e1 == Direct(e0, "rename_config", rename_config(e0.w, "cspell.json", CONFIG_PATH.cspell))
        e2 == Direct(e1, "_check_hook_url", _check_hook_url(e1.w))
        e3 == Direct(e2, "PrecommitConfig.load", Load(e2.w))
    IN  IF e3.aborted THEN e3
        ELSE IF PrecommitConfig_find_repo(PrecommitConfig_load(w.file).config[1],
                                          CspellUrl) = <<>>
        THEN _remove_configuration(e3)
        ELSE LET c1 == Executed(e3, "_check_check_hook_options",
                                _check_check_hook_options(e3.w))
                 c2 == Executed(c1, "_fix_config_content", _fix_config_content(c1.w))
                 c3 == Executed(c2, "_sort_config_entries", _sort_config_entries(c2.w))
                 c4 == Executed(c3, "_check_editor_config", _check_editor_config(c3.w))
                 c5 == Executed(c4, "_update_prettier_ignore", _update_prettier_ignore(c4.w))
                 c6 == Executed(c5, "add_badge",
                                Badge(c5.w, add_badge(ReadmeOf(c5.w), <<"B">>)))
             IN  Executed(c6, "add_vscode_extension_recommendation",
                          add_vscode_extension_recommendation(c6.w, VscodeExtensionName))

-----------------------------------------------------------------------------
(* The working trees the checkers run on *)

\* the tree of the files that assign gives a content: assign maps a path to
\* <<>> (no file) or <<content>>
MakeTree(assign) ==
    [p \in {q \in DOMAIN assign : assign[q] # <<>>} |-> assign[p][1]]

\* <<>> and <<c>> for the contents c
Optional(contents) == {<<>>} \cup {<<c>> : c \in contents}

Option(key, value) == [key |-> key, value |-> value]

BlackTables ==
    {<<>>,
     <<Option("preview", <<"true">>)>>,
     <<Option("preview", <<"true">>), Option("target-version", <<"py37">>)>>,
     <<Option("target-version", <<"py37">>), Option("preview", <<"true">>)>>,
     <<Option("line-length", <<"88">>), Option("preview", <<"true">>)>>,
     <<Option("preview", <<"true">>), Option("target-version", <<"py310", "py37">>)>>}

Pyprojects ==
    {[black |-> b, nbqa |-> <<>>, tomlsort |-> <<>>] : b \in BlackTables} \cup
    {[black |-> b, nbqa |-> <<"--line-length=85">>, tomlsort |-> <<"expected">>] :
        b \in BlackTables}

SetupCfgs == {<<>>, <<"3.7">>, <<"3.7", "3.10">>}

BlackTrees ==
    {MakeTree([p \in {CONFIG_PATH.pyproject, CONFIG_PATH.setup_cfg} |->
                  IF p = CONFIG_PATH.pyproject THEN <<py>> ELSE cfg]) :
        py \in Pyprojects, cfg \in Optional(SetupCfgs)}

VscodeConfigs ==
    {NoRecommendations,
     [recommendations |-> <<(<<"other">>)>>],
     [recommendations |-> <<(<<"better-toml", "code-spell-checker">>)>>]}

TomlTrees ==
    {MakeTree([p \in {CONFIG_PATH.pyproject, TaploPath, IncorrectTaploPath, CONFIG_PATH.vscode_extensions} |->
                  CASE p = CONFIG_PATH.pyproject      -> py
                    [] p = TaploPath          -> taplo
                    [] p = IncorrectTaploPath -> old
                    [] p = CONFIG_PATH.vscode_extensions         -> vs]) :
        py \in Optional({[black |-> <<>>, nbqa |-> <<>>, tomlsort |-> t] :
                            t \in {<<>>, <<"expected">>}}),
        taplo \in Optional({"expected", "other"}),
        old \in Optional({"other"}),
        vs \in Optional(VscodeConfigs)}

CspellConfigs ==
    {EmptyCspellConfig,
     [language |-> <<"en-US">>, words |-> <<(<<(<<"a">>), (<<"B">>)>>)>>,
      ignoreWords |-> <<(<<>>)>>],
     [language |-> <<"en-US">>, words |-> <<(<<(<<"B">>), (<<"a">>)>>)>>,
      ignoreWords |-> <<(<<>>)>>],
     [language |-> <<"nl">>, words |-> <<(<<(<<"a">>)>>)>>, ignoreWords |-> <<>>]}

EditorConfigs ==
    {<<>>,
     <<SectionLine, "indent_size = 4\n">>,
     <<SectionLine, "indent_size = 2\n">>,
     <<SectionLine, "indent_size = 4\n", CspellLine>>}

PrettierIgnores == {<<"x\n">>, <<"x\n", CspellLine>>}

CheckerReadmes ==
    {<<"#", "\n", "\n">>, <<"#", "\n", "t">>, <<"#", "\n", "\n", "B", "\n">>}

CspellTrees ==
    {MakeTree([p \in {CONFIG_PATH.cspell, "cspell.json", CONFIG_PATH.editor_config, CONFIG_PATH.prettier_ignore,
                      ReadmePath, CONFIG_PATH.vscode_extensions} |->
                  CASE p = CONFIG_PATH.cspell         -> cs
                    [] p = "cspell.json"      -> old
                    [] p = CONFIG_PATH.editor_config   -> ec
                    [] p = CONFIG_PATH.prettier_ignore -> pi
                    [] p = ReadmePath         -> rd
                    [] p = CONFIG_PATH.vscode_extensions         -> vs]) :
        cs \in Optional(CspellConfigs),
        old \in Optional({EmptyCspellConfig}),
        ec \in Optional(EditorConfigs),
        pi \in Optional(PrettierIgnores),
        rd \in Optional(CheckerReadmes),
        vs \in Optional(VscodeConfigs)}

\* an entry of .pre-commit-config.yaml
Entry(url, rev, hooks) == [repo |-> url, rev |-> rev, hooks |-> hooks, blank |-> FALSE]

CheckerFiles ==
    {NoFile} \cup
    {[exists |-> TRUE, repos |-> r, top |-> <<>>] : r \in
        {<<>>,
         <<Entry(<<"s">>, "v1", <<CspellHook>>)>>,
         <<Entry(<<"s">>, NoRev, <<[id |-> <<"c">>, args |-> "x"]>>)>>,
         <<Entry(<<"m">>, "v1", <<CspellHook>>)>>,
         <<Entry(<<"m">>, "v1", <<CspellHook>>), Entry(<<"s">>, "v1", <<CspellHook>>)>>,
         <<Entry(<<"a">>, "v1", <<[id |-> <<"a">>, args |-> "x"]>>)>>,
         <<Entry(<<"c">>, "v1", <<[id |-> <<"a">>, args |-> "-"]>>),
           Entry(<<"b">>, "v1", <<[id |-> <<"b">>, args |-> "x"]>>)>>,
         <<Entry(<<"c">>, "v1", <<[id |-> <<"c">>, args |-> "-"],
                                  [id |-> <<"B">>, args |-> "-"]>>)>>}}

-----------------------------------------------------------------------------
(* Runs of the checkers *)

\* the checks that report a violation and correct nothing
ViolationChecks ==
    {"_check_line_length", "_check_activate_preview", "_check_option_ordering",
     "_check_target_versions", "_check_pyproject",
     "_check_check_hook_options", "_check_editor_config"}

\* the violation check of the given name
Check(name, w) ==
    CASE name = "_check_line_length"        -> _check_line_length(w, _load_black_config(w))
      [] name = "_check_activate_preview"   -> _check_activate_preview(w, _load_black_config(w))
      [] name = "_check_option_ordering"    -> _check_option_ordering(w, _load_black_config(w))
      [] name = "_check_target_versions"    -> _check_target_versions(w, _load_black_config(w))
      [] name = "_check_pyproject"          -> _check_pyproject(w)
      [] name = "_check_check_hook_options" -> _check_check_hook_options(w)
      [] name = "_check_editor_config"      -> _check_editor_config(w)

\* the state after a run: exec is the state of the executor at its end
Ran(name, exec) ==
    /\ file' = exec.w.file
    /\ tree' = exec.w.tree
    /\ opened' = exec.w.opened
    /\ writes' = exec.w.writes
    /\ raised' = exec.error_messages
    /\ executed' = exec.executed
    /\ checker' = name
    /\ runs' = runs + 1
    /\ UNCHANGED <<arg, expected_repo_def, idx>>

BlackMain == runs = 0 /\ Ran("black", black_main(World(file, tree)))

TomlMain == runs = 0 /\ Ran("toml", toml_main(World(file, tree)))

EditorconfigMain == runs = 0 /\ Ran("editorconfig", editorconfig_main(World(file, tree)))

CspellMain == runs = 0 /\ Ran("cspell", cspell_main(World(file, tree)))

\* a violation check runs alone, under an executor
ViolationCheck ==
    /\ runs = 0
    /\ \E name \in ViolationChecks :
          /\ name \notin {"_check_check_hook_options", "_check_editor_config"}
                => CONFIG_PATH.pyproject \in DOMAIN tree
          /\ Ran(name, Executed(Executor(World(file, tree)), name,
                                Check(name, World(file, tree))))

InitCheckers ==
    /\ file \in CheckerFiles
    /\ tree \in BlackTrees \cup TomlTrees \cup CspellTrees
    /\ arg = <<>>
    /\ expected_repo_def = <<>>
    /\ raised = <<>>
    /\ writes = 0
    /\ idx = <<>>
    /\ runs = 0
    /\ checker = ""
    /\ executed = <<>>
    /\ opened = {}

NextCheckers ==
    \/ BlackMain
    \/ TomlMain
    \/ EditorconfigMain
    \/ CspellMain
    \/ ViolationCheck

SpecCheckers == InitCheckers /\ [][NextCheckers]_vars

-----------------------------------------------------------------------------
(* Runs and re-runs of the functions that correct one file *)

MaxFixRuns == 5

\* working trees with repeated lines, repeated recommendations and unsorted
\* word lists
FixTrees ==
    {MakeTree([p \in {CONFIG_PATH.cspell, CONFIG_PATH.editor_config, CONFIG_PATH.prettier_ignore,
                      ReadmePath, CONFIG_PATH.vscode_extensions} |->
                  CASE p = CONFIG_PATH.cspell            -> cs
                    [] p = CONFIG_PATH.editor_config     -> ec
                    [] p = CONFIG_PATH.prettier_ignore   -> pi
                    [] p = ReadmePath                    -> rd
                    [] p = CONFIG_PATH.vscode_extensions -> vs]) :
        cs \in Optional({EmptyCspellConfig,
                         [language |-> <<"nl">>, words |-> <<(<<(<<"a">>), (<<"B">>)>>)>>,
                          ignoreWords |-> <<(<<(<<"B">>), (<<"b">>)>>)>>],
                         [language |-> <<"nl">>,
                          words |-> <<(<<(<<"c">>), (<<"B">>), (<<"a">>)>>)>>,
                          ignoreWords |-> <<>>],
                         [language |-> <<"en-US">>,
                          words |-> <<(<<(<<"a">>), (<<"c">>)>>)>>,
                          ignoreWords |-> <<(<<(<<"B">>), (<<"b">>), (<<"a">>)>>)>>]}),
        ec \in Optional({<<SectionLine, "indent_size = 4\n">>,
                         <<CspellLine, "x\n", CspellLine>>}),
        pi \in Optional({<<>>, <<"x\n">>, <<"y\n", "x\n">>, <<"x\n", CspellLine>>}),
        rd \in Optional({<<"#", "\n", "\n">>,
                         <<"#", "\n", "B", "\n">>,
                         <<"B", "\n", "t", "\n", "B", "t", "\n">>}),
        vs \in Optional({NoRecommendations,
                         [recommendations |-> <<(<<"other">>)>>],
                         [recommendations |-> <<(<<"other", VscodeExtensionName, "x">>)>>],
                         [recommendations |->
                              <<(<<VscodeExtensionName, "other", VscodeExtensionName>>)>>]})}

\* one run of the function of the given name, under an executor of its own
Fix(name, w) ==
    CASE name = "remove_vscode_extension_recommendation" ->
             Executed(Executor(w), name,
                      remove_vscode_extension_recommendation(w, VscodeExtensionName))
      [] name = "_update_prettier_ignore" ->
             Executed(Executor(w), name, _update_prettier_ignore(w))
      [] name = "_sort_config_entries" ->
             Executed(Executor(w), name, _sort_config_entries(w))
      [] name = "_remove_configuration" ->
             _remove_configuration(Executor(w))

RemoveVscodeExtensionRecommendation ==
    /\ runs = 0
    /\ Ran("remove_vscode_extension_recommendation",
           Fix("remove_vscode_extension_recommendation", World(file, tree)))

UpdatePrettierIgnore ==
    /\ runs = 0
    /\ Ran("_update_prettier_ignore", Fix("_update_prettier_ignore", World(file, tree)))

\* main calls it after _fix_config_content, which creates a missing file
SortConfigEntries ==
    /\ runs = 0
    /\ CONFIG_PATH.cspell \in DOMAIN tree
    /\ Ran("_sort_config_entries", Fix("_sort_config_entries", World(file, tree)))

\* main calls it when the document is loaded and has no repo of cspell
RemoveConfiguration ==
    /\ runs = 0
    /\ file.exists
    /\ PrecommitConfig_find_repo(PrecommitConfig_load(file).config[1], CspellUrl) = <<>>
    /\ Ran("_remove_configuration", Fix("_remove_configuration", World(file, tree)))

\* the same function runs again on the tree the last run left
FixAgain ==
    /\ runs >= 1
    /\ runs < MaxFixRuns
    /\ Ran(checker, Fix(checker, World(file, tree)))

InitFixes ==
    /\ file \in CheckerFiles
    /\ tree \in FixTrees
    /\ arg = <<>>
    /\ expected_repo_def = <<>>
    /\ raised = <<>>
    /\ writes = 0
    /\ idx = <<>>
    /\ runs = 0
    /\ checker = ""
    /\ executed = <<>>
    /\ opened = {}

NextFixes ==
    \/ RemoveVscodeExtensionRecommendation
    \/ UpdatePrettierIgnore
    \/ SortConfigEntries
    \/ RemoveConfiguration
    \/ FixAgain

SpecFixes == InitFixes /\ [][NextFixes]_vars

-----------------------------------------------------------------------------
(* Vocabulary of the properties *)

\* the positions (1-based) of the first entry of f whose URL the pattern matches
FirstMatching(f, pattern) ==
    {i \in 1..Len(f.repos) :
        /\ Search(pattern, f.repos[i].repo)
        /\ \A j \in 1..(i - 1) : ~Search(pattern, f.repos[j].repo)}

\* the fields of an entry other than rev
NonRev(r) == [repo |-> r.repo, hooks |-> r.hooks]

\* the fields of an entry as YAML data
Data(r) == [repo |-> r.repo, rev |-> r.rev, hooks |-> r.hooks]

\* a call of the engine has just been made on an existing file
Called == arg # <<>> /\ file.exists

-----------------------------------------------------------------------------
(* C1 *)

\* C1: after a call of update_single_hook_precommit_repo, whatever it did,
\* a second call on the resulting file with the same descriptor writes
\* nothing and raises nothing.
C1_Idempotent == runs = 2 => (raised = <<>> /\ writes = 0)

-----------------------------------------------------------------------------
(* C2 *)

\* C2: when the first entry matching the URL of the descriptor has a
\* non-empty rev and differs from the descriptor in a field other than rev,
\* the entry written at that index carries the rev of the entry it replaces.
C2_PinPreserved ==
    [][\A i \in FirstMatching(file, arg'[1].repo) :
          (/\ file.repos[i].rev \notin {NoRev, ""}
           /\ NonRev(file.repos[i]) # NonRev(arg'[1]))
          => /\ writes' = 1
             /\ Len(file'.repos) >= i
             /\ file'.repos[i].rev = file.repos[i].rev]_vars

\* an entry was replaced and the entry written has the rev "v1", which only
\* an entry of the original file has
C2_Witness ==
    /\ Called
    /\ raised # <<>>
    /\ raised[1].kind = "Updated"
    /\ file.repos[idx[1] + 1].rev = "v1"
    /\ arg[1].rev = "v2"

-----------------------------------------------------------------------------
(* C3 *)

\* C3: when the first entry matching the URL equals the descriptor after
\* rev is removed from both, whatever the two revs are, the call leaves the
\* file unchanged, writes nothing and raises nothing.
C3_EquivalentIsNoOp ==
    [][\A i \in FirstMatching(file, arg'[1].repo) :
          NonRev(file.repos[i]) = NonRev(arg'[1])
          => file' = file /\ writes' = 0 /\ raised' = <<>>]_vars

\* a call found an entry that differs from the descriptor in rev only
C3_Witness ==
    /\ Called
    /\ raised = <<>>
    /\ writes = 0
    /\ \E i \in FirstMatching(file, arg[1].repo) :
          /\ NonRev(file.repos[i]) = NonRev(arg[1])
          /\ file.repos[i].rev = "v1"
          /\ arg[1].rev \in {NoRev, "v2"}

-----------------------------------------------------------------------------
(* C4 *)

\* C4: when the first entry matching the URL differs from the descriptor in
\* a field other than rev, the call replaces the entry at the same index:
\* the entry there equals the descriptor in every field but rev, the number
\* of entries is unchanged, and "Updated <hook id>" is raised.
C4_ReplacedInPlace ==
    [][\A i \in FirstMatching(file, arg'[1].repo) :
          NonRev(file.repos[i]) # NonRev(arg'[1])
          => /\ Len(file'.repos) = Len(file.repos)
             /\ NonRev(file'.repos[i]) = NonRev(arg'[1])
             /\ idx' = <<i - 1>>
             /\ raised' = <<[kind |-> "Updated", hook_id |-> arg'[1].hooks[1].id]>>]_vars

\* the last of several entries was replaced and took the URL of the descriptor
C4_Witness ==
    /\ Called
    /\ raised # <<>>
    /\ raised[1].kind = "Updated"
    /\ Len(file.repos) >= 2
    /\ idx[1] + 1 = Len(file.repos)
    /\ file.repos[idx[1] + 1].repo = <<"b">>

-----------------------------------------------------------------------------
(* C5 *)

\* the hook ids of the single-hook entries, in the order of the file
RECURSIVE SingleHookIds(_)
SingleHookIds(repos) ==
    IF repos = <<>> THEN <<>>
    ELSE (IF Len(repos[1].hooks) = 1 THEN <<repos[1].hooks[1].id>> ELSE <<>>)
         \o SingleHookIds(Tail(repos))

\* rank of a one-character hook id in the case-insensitive alphabet
Rank(id) ==
    CASE id = <<"a">> -> 1
      [] id \in {<<"b">>, <<"B">>} -> 2
      [] id = <<"c">> -> 3

\* C5: starting from an empty repos list and reconciling descriptors whose
\* URLs do not match one another, in any order, the single-hook entries of
\* the file are in ascending case-insensitive order of their hook ids.
C5_Alphabetic ==
    LET ids == SingleHookIds(file.repos)
    IN  \A i, j \in 1..Len(ids) : i < j => Rank(ids[i]) <= Rank(ids[j])

\* three entries a, B, c, with a inserted last: B or c was reconciled first
C5_Witness ==
    /\ Len(file.repos) = 3
    /\ SingleHookIds(file.repos) = <<<<"a">>, <<"B">>, <<"c">>>>
    /\ raised = <<[kind |-> "Added", hook_id |-> <<"a">>]>>
    /\ idx = <<0>>

-----------------------------------------------------------------------------
(* C6 *)

\* the entry at position i (1-based) has exactly one hook, whose lower-cased
\* id is greater than or equal to the lower-cased hook_id
Boundary(f, i, hook_id) ==
    /\ Len(f.repos[i].hooks) = 1
    /\ Rank(hook_id) <= Rank(f.repos[i].hooks[1].id)

\* C6: for the file at hand and every hook id, _determine_expected_repo_index
\* returns the index of the first entry that has exactly one hook and a
\* hook id >= the expected one (case-insensitive), never an entry with
\* several hooks, and the length of the list when there is no such entry.
C6_InsertionIndex ==
    file.exists =>
        \A hook_id \in HookIds :
            LET config == load_round_trip_precommit_config(file)
                i == _determine_expected_repo_index(config, hook_id)
                n == Len(file.repos)
            IN  /\ i \in 0..n
                /\ \A j \in 1..i : ~Boundary(file, j, hook_id)
                /\ i < n => Boundary(file, i + 1, hook_id)

\* an entry was inserted behind an entry with two hooks whose first hook id
\* is >= the id of the new hook
C6_Witness ==
    /\ Called
    /\ raised # <<>>
    /\ raised[1].kind = "Added"
    /\ \E j \in 1..idx[1] :
          /\ Len(file.repos[j].hooks) = 2
          /\ Rank(raised[1].hook_id) <= Rank(file.repos[j].hooks[1].id)

-----------------------------------------------------------------------------
(* C7 *)

\* C7: after an insertion or a replacement at index i, the entry at index
\* i + 1 is preceded by a blank line; a new entry that became the last one
\* is itself preceded by a blank line.
C7_BlankLineAfter ==
    (Called /\ raised # <<>>) =>
        LET i == idx[1]
            n == Len(file.repos)
        IN  /\ i + 1 < n => file.repos[i + 2].blank
            /\ (raised[1].kind = "Added" /\ i + 1 = n) => file.repos[i + 1].blank

\* an entry was inserted at the front of a list without blank lines: only
\* the entry that follows it is preceded by a blank line
C7_Witness ==
    /\ Called
    /\ raised # <<>>
    /\ raised[1].kind = "Added"
    /\ idx = <<0>>
    /\ Len(file.repos) = 3
    /\ ~file.repos[1].blank
    /\ file.repos[2].blank
    /\ ~file.repos[3].blank

\* the same for an entry appended to a list without blank lines
C7_WitnessLast ==
    /\ Called
    /\ raised # <<>>
    /\ raised[1].kind = "Added"
    /\ idx = <<2>>
    /\ Len(file.repos) = 3
    /\ ~file.repos[2].blank
    /\ file.repos[3].blank

-----------------------------------------------------------------------------
(* C8 *)

\* every two consecutive entries are separated by a blank line
Separated(f) == \A i \in 2..Len(f.repos) : f.repos[i].blank

\* C8: when every two consecutive entries are separated by a blank line
\* before the call, they are after an insertion or a replacement.
C8_SeparationKept ==
    [][(Separated(file) /\ raised' # <<>>) => Separated(file')]_vars

\* an entry was inserted between two entries, and all are separated
C8_Witness ==
    /\ Called
    /\ raised # <<>>
    /\ raised[1].kind = "Added"
    /\ idx = <<1>>
    /\ Len(file.repos) = 3
    /\ Separated(file)

-----------------------------------------------------------------------------
(* C9 *)

\* s without its element at position k
Without(s, k) == SubSeq(s, 1, k - 1) \o SubSeq(s, k + 1, Len(s))

\* the entry a descriptor is inserted as
AsInserted(e) ==
    [repo |-> e.repo, rev |-> IF e.rev = NoRev THEN "" ELSE e.rev, hooks |-> e.hooks]

\* C9: when no entry matches the URL of the descriptor, the call inserts the
\* descriptor, with rev "" when it has none and with its own rev otherwise,
\* and raises "Added <hook id>"; with an empty list the result is exactly
\* the one entry.
C9_InsertMissing ==
    [][(file.exists /\ FirstMatching(file, arg'[1].repo) = {})
        => /\ raised' = <<[kind |-> "Added", hook_id |-> arg'[1].hooks[1].id]>>
           /\ Len(file'.repos) = Len(file.repos) + 1
           /\ Data(file'.repos[idx'[1] + 1]) = AsInserted(arg'[1])
           /\ LET rest == Without(file'.repos, idx'[1] + 1)
              IN  \A i \in 1..Len(file.repos) : Data(rest[i]) = Data(file.repos[i])]_vars

\* the one entry of the file is a descriptor without rev, inserted with rev ""
C9_Witness ==
    /\ Called
    /\ raised # <<>>
    /\ raised[1].kind = "Added"
    /\ arg[1].rev = NoRev
    /\ Len(file.repos) = 1
    /\ Data(file.repos[1]) = [repo |-> arg[1].repo, rev |-> "", hooks |-> arg[1].hooks]

-----------------------------------------------------------------------------
(* C10 *)

\* C10: whenever a call with a descriptor that has no rev writes the file,
\* the entry it wrote has a rev.
C10_PinExists ==
    (Called /\ writes = 1 /\ arg[1].rev = NoRev) => file.repos[idx[1] + 1].rev # NoRev

\* a call of update_precommit_hook is the step
HookCall == Len(arg') = 2 /\ runs' = runs + 1

\* C11: when the file exists and no repo of it matches repo_url,
\* update_precommit_hook leaves the document as it is, writes nothing and
\* raises nothing
C11_NoRepoNoEffect ==
    [][(HookCall /\ file.exists /\ FirstMatching(file, arg'[1]) = {})
        => (file' = file /\ writes' = 0 /\ raised' = <<>>)]_vars

\* a hook was reconciled against a file with repos, none matching
C11_Witness ==
    /\ Len(arg) = 2
    /\ file.exists
    /\ file.repos # <<>>
    /\ FirstMatching(file, arg[1]) = {}
    /\ writes = 0

\* the position of the hook that a search for hook_id finds (from 1)
FirstHook(hooks, hook_id) ==
    {k \in 1..Len(hooks) :
        /\ hooks[k].id = hook_id
        /\ \A j \in 1..(k - 1) : hooks[j].id # hook_id}

\* update_precommit_hook has run on a file with a repo that matches repo_url
HookCalled == Len(arg) = 2 /\ file.exists /\ FirstMatching(file, arg[1]) # {}

\* C12: after a run of update_precommit_hook on a document with a repo that
\* matches repo_url, the hook with the expected id in that repo is the
\* expected hook, and a second run with the same arguments writes nothing
\* and raises nothing
C12_HookIdempotent ==
    HookCalled =>
        /\ \A i \in FirstMatching(file, arg[1]) :
              /\ FirstHook(file.repos[i].hooks, arg[2].id) # {}
              /\ \A k \in FirstHook(file.repos[i].hooks, arg[2].id) :
                    file.repos[i].hooks[k] = arg[2]
        /\ runs = 2 => (raised = <<>> /\ writes = 0)

\* the second run has returned on a hook list that the first run changed
C12_Witness ==
    /\ HookCalled
    /\ runs = 2
    /\ \E i \in FirstMatching(file, arg[1]) :
          file.repos[i].hooks \notin HookFileHooks \cup FileHooks

\* C13: on a tree without .pre-commit-config.yaml a call of
\* update_single_hook_precommit_repo or of update_precommit_hook returns
\* without an error and without creating or writing a file, and
\* PrecommitConfig.load raises and returns no document
C13_NeverCreated ==
    [][(~file.exists /\ runs' = runs + 1) =>
          /\ file' = file
          /\ tree' = tree
          /\ writes' = 0
          /\ IF executed' = <<"PrecommitConfig.load">>
             THEN raised' # <<>> /\ PrecommitConfig_load(file).config = <<>>
             ELSE raised' = <<>>]_vars

\* the engine was called twice on a tree without the file
C13_Witness ==
    /\ ~file.exists
    /\ runs = 2
    /\ Len(arg) = 1

\* the load was attempted on a tree without the file
C13_WitnessLoad ==
    /\ ~file.exists
    /\ executed = <<"PrecommitConfig.load">>

\* the data of the document
Document(f) == [i \in 1..Len(f.repos) |-> Data(f.repos[i])]

\* a call of one of the two update functions is the step
EngineCall == runs' = runs + 1 /\ executed' = <<>>

\* C14: a run of update_single_hook_precommit_repo or of
\* update_precommit_hook writes the document at most once, writes it exactly
\* when it inserted or replaced an entry, and raises exactly when it wrote
C14_WriteIffCorrection ==
    [][EngineCall =>
          /\ writes' \in {0, 1}
          /\ writes' = 1 <=> Document(file') # Document(file)
          /\ writes' = 1 <=> raised' # <<>>
          /\ writes' = 0 => file' = file]_vars

\* a run that added a hook has written once and raised
C14_Witness ==
    /\ Len(arg) = 2
    /\ writes = 1
    /\ raised # <<>>
    /\ raised[1].kind = "AddedHook"

\* a run that found nothing to correct
C14_WitnessSilent ==
    /\ Len(arg) = 1
    /\ file.exists
    /\ runs = 1
    /\ writes = 0
    /\ raised = <<>>

\* the three searches return the entry of position i (from 1) of f, or
\* nothing when i is no position
SearchesReturn(f, pattern, i) ==
    LET r == find_repo(load_round_trip_precommit_config(f), pattern)
        c == PrecommitConfig_load(f).config[1]
    IN  /\ r.found <=> i \in 1..Len(f.repos)
        /\ r.found => r.idx = i - 1
        /\ PrecommitConfig_get_repo_index(c, pattern) =
               IF i \in 1..Len(f.repos) THEN <<i - 1>> ELSE <<>>
        /\ PrecommitConfig_find_repo(c, pattern) =
               IF i \in 1..Len(f.repos) THEN <<Data(f.repos[i])>> ELSE <<>>

\* the lowest position (from 1) of an entry of f that the pattern matches,
\* 0 when there is none
LowestMatch(f, pattern) ==
    LET m == {i \in 1..Len(f.repos) : Search(pattern, f.repos[i].repo)}
    IN  IF m = {} THEN 0 ELSE CHOOSE i \in m : \A j \in m : i <= j

\* C15: of several entries that match the pattern the searches return the
\* one of lowest index; update_single_hook_precommit_repo compares the
\* descriptor with that entry only and replaces that entry only, every
\* other entry keeps its data
C15_FirstMatchWins ==
    [][(runs' = runs + 1 /\ Len(arg') = 1 /\ file.exists) =>
          LET i == LowestMatch(file, arg'[1].repo)
          IN  /\ \A p \in Urls : SearchesReturn(file, p, LowestMatch(file, p))
              /\ i > 0 =>
                    /\ Len(file'.repos) = Len(file.repos)
                    /\ \A j \in 1..Len(file.repos) :
                          j # i => Data(file'.repos[j]) = Data(file.repos[j])
                    /\ writes' = 1 <=> NonRev(file.repos[i]) # NonRev(arg'[1])]_vars

\* the first of two matching entries was replaced and the second one, which
\* differs from the descriptor as well, is there
C15_Witness ==
    /\ Called
    /\ Len(arg) = 1
    /\ writes = 1
    /\ raised[1].kind = "Updated"
    /\ idx = <<0>>
    /\ Len(file.repos) = 2
    /\ Search(arg[1].repo, file.repos[2].repo)
    /\ NonRev(file.repos[2]) # NonRev(arg[1])

\* C16: when a run of add_badge has inserted the badge and reported the
\* fix, the next run with the same badge finds the badge: it writes
\* nothing and raises nothing
C16_BadgeConverges ==
    [][(/\ runs = 1
        /\ runs' = 2
        /\ executed[1] \in {"add_badge", "helpers_add_badge"}
        /\ raised # <<>>
        /\ raised[1].kind = "Fixed")
       => (raised' = <<>> /\ writes' = 0 /\ tree' = tree)]_vars

\* a call of add_badge or of remove_badge is the step
BadgeCall == runs' = runs + 1 /\ executed' # <<>> /\ executed'[1] \in BadgeFunctions

\* C20: without README.md add_badge and remove_badge raise an error and
\* leave the tree without the file; when add_badge reports that README.md
\* has no title, the file is as it was
C20_FatalWithoutEffect ==
    [][BadgeCall =>
          /\ ReadmePath \notin DOMAIN tree =>
                /\ raised' # <<>>
                /\ DOMAIN tree' = {}
                /\ writes' = 0
                /\ opened' = {}
                /\ file' = file
          /\ (raised' # <<>> /\ raised'[1].kind = "NoTitle") =>
                /\ tree' = tree
                /\ writes' = 0]_vars

\* add_badge has raised on a tree without README.md
C20_Witness ==
    /\ ReadmePath \notin DOMAIN tree
    /\ executed = <<"add_badge">>
    /\ raised # <<>>

\* remove_badge has raised on a tree without README.md
C20_WitnessRemove ==
    /\ ReadmePath \notin DOMAIN tree
    /\ executed = <<"remove_badge">>
    /\ raised # <<>>

\* add_badge has found no title in a README.md that has lines
C20_WitnessNoTitle ==
    /\ ReadmePath \in DOMAIN tree
    /\ Len(tree[ReadmePath]) >= 2
    /\ executed \in {<<"add_badge">>, <<"helpers_add_badge">>}
    /\ raised # <<>>
    /\ raised[1].kind = "NoTitle"

\* none of the trigger files of the checker is in the tree
GateClosed(name, t) ==
    CASE name = "black"        -> CONFIG_PATH.pyproject \notin DOMAIN t
      [] name = "toml"         -> \A f \in {CONFIG_PATH.pyproject, TaploPath, IncorrectTaploPath} :
                                      f \notin DOMAIN t
      [] name = "editorconfig" -> CONFIG_PATH.editor_config \notin DOMAIN t

\* C17: when the trigger files of black, toml or editorconfig are absent,
\* main returns at once: it opens no file, changes no file, executes no
\* sub-check and raises nothing
C17_Gate ==
    [][\A name \in {"black", "toml", "editorconfig"} :
          (runs' = runs + 1 /\ checker' = name /\ GateClosed(name, tree)) =>
              /\ file' = file
              /\ tree' = tree
              /\ opened' = {}
              /\ writes' = 0
              /\ executed' = <<>>
              /\ raised' = <<>>]_vars

\* editorconfig's main has returned on a tree with other files and a
\* document that lacks its hook
C17_Witness ==
    /\ checker = "editorconfig"
    /\ GateClosed("editorconfig", tree)
    /\ DOMAIN tree # {}
    /\ file.exists
    /\ FirstMatching(file, EditorconfigUrl) = {}

\* black's main has returned on a tree without pyproject.toml
C17_WitnessBlack ==
    /\ checker = "black"
    /\ GateClosed("black", tree)
    /\ DOMAIN tree # {}
    /\ file.exists

\* toml's main has returned on a tree without its three trigger files
C17_WitnessToml ==
    /\ checker = "toml"
    /\ GateClosed("toml", tree)
    /\ CONFIG_PATH.vscode_extensions \in DOMAIN tree
    /\ file.exists

\* the steps of cspell's main when the document has the cspell repo
CspellPresentSteps ==
    <<"rename_config", "_check_hook_url", "PrecommitConfig.load",
      "_check_check_hook_options", "_fix_config_content", "_sort_config_entries",
      "_check_editor_config", "_update_prettier_ignore", "add_badge",
      "add_vscode_extension_recommendation">>

\* the steps of cspell's main when the document lacks the cspell repo
CspellRemovalSteps ==
    <<"rename_config", "_check_hook_url", "PrecommitConfig.load",
      "remove .cspell.json", "remove line of .editorconfig", "remove_badge",
      "remove_vscode_extension_recommendation">>

\* C18: a run of cspell's main executes every sub-check of its branch,
\* whichever of them raised
C18_AllSubchecksRun ==
    checker = "cspell" => executed \in {CspellPresentSteps, CspellRemovalSteps}

\* C19: a violation check of black or of cspell leaves every file as it
\* is, whether it raises or returns
C19_ViolationNotFixed ==
    [][(runs' = runs + 1 /\ checker' \in ViolationChecks) =>
          /\ file' = file
          /\ tree' = tree
          /\ writes' = 0]_vars

\* a violation check of cspell has raised
C19_Witness ==
    /\ checker = "_check_editor_config"
    /\ raised # <<>>
    /\ raised[1].kind = "NoSection"

\* a violation check of black has raised
C19_WitnessBlack ==
    /\ checker = "_check_target_versions"
    /\ raised # <<>>
    /\ raised[1].kind = "TargetVersions"

\* a violation check has returned after reading its file
C19_WitnessReturned ==
    /\ checker = "_check_check_hook_options"
    /\ raised = <<>>
    /\ opened = {CONFIG_PATH.precommit}

-----------------------------------------------------------------------------
(* C21 *)

\* the index of the editorconfig entry in the file, if it has one
EditorconfigEntryAt(f) ==
    {i \in 1..Len(f.repos) : f.repos[i].repo = EditorconfigUrl}

\* C21: when the editorconfig checker inserts its entry, the index of the
\* insertion is not the position of an entry with two or more hooks: the
\* entry that follows the inserted one has one hook
C21_NoMultiHookAnchor ==
    [][(checker' = "editorconfig" /\ runs' = runs + 1
        /\ EditorconfigEntryAt(file) = {} /\ EditorconfigEntryAt(file') # {})
       => \A i \in EditorconfigEntryAt(file') :
              i < Len(file'.repos) => Len(file'.repos[i + 1].hooks) = 1]_vars

-----------------------------------------------------------------------------
(* C22 *)

\* the hook ids of hooks from position k on (k from 0) that are, in lower
\* case, not before hook_id in lower case
NotBefore(hooks, hook_id) ==
    {k \in 0..(Len(hooks) - 1) : StrLe(Lower(hook_id), Lower(hooks[k + 1].id))}

\* C22: a missing hook is inserted directly in front of the first hook of
\* the repo whose id is, compared without regard to case, greater than or
\* equal to its own id, and behind the last hook when there is none
C22_HookOrderCaseInsensitive ==
    [][(HookCall /\ raised' # <<>> /\ raised'[1].kind = "AddedHook")
       => LET hooks == file.repos[idx'[1] + 1].hooks
              at    == NotBefore(hooks, arg'[2].id)
              k     == IF at = {} THEN Len(hooks)
                       ELSE CHOOSE i \in at : \A j \in at : i <= j
          IN  /\ idx'[2] = k
              /\ file'.repos[idx'[1] + 1].hooks =
                     SubSeq(hooks, 1, k) \o <<arg'[2]>> \o SubSeq(hooks, k + 1, Len(hooks))]_vars

-----------------------------------------------------------------------------
(* C23 *)

\* t is s with one element more, or s with at most one element changed
OneChange(s, t) ==
    \/ /\ Len(t) = Len(s) + 1
       /\ \E k \in 1..Len(t) : Without(t, k) = s
    \/ /\ Len(t) = Len(s)
       /\ Cardinality({i \in 1..Len(s) : t[i] # s[i]}) <= 1

\* the entries of a file as YAML data
Entries(f) == [i \in 1..Len(f.repos) |-> Data(f.repos[i])]

\* C23: a run of update_single_hook_precommit_repo inserts one entry or
\* changes one entry, the other entries keep content and order, and the
\* top-level settings stay; a run of update_precommit_hook inserts or changes
\* one hook of the first repo that matches repo_url and nothing else: the
\* URL and rev of that repo, its other hooks, the other entries and the
\* top-level settings stay
C23_Frame ==
    [][(file.exists /\ runs' = runs + 1 /\ Len(arg') \in {1, 2})
       => /\ file'.top = file.top
          /\ Len(arg') = 1 => OneChange(Entries(file), Entries(file'))
          /\ Len(arg') = 2 =>
                /\ Len(file'.repos) = Len(file.repos)
                /\ \A i \in 1..Len(file.repos) :
                      /\ file'.repos[i].repo = file.repos[i].repo
                      /\ file'.repos[i].rev = file.repos[i].rev
                      /\ IF i \in FirstMatching(file, arg'[1])
                         THEN OneChange(file.repos[i].hooks, file'.repos[i].hooks)
                         ELSE file'.repos[i].hooks = file.repos[i].hooks]_vars

\* an entry was replaced in a file with settings and a second entry
C23_Witness ==
    /\ Len(arg) = 1
    /\ raised # <<>> /\ raised[1].kind = "Updated"
    /\ file.top # <<>>
    /\ Len(file.repos) >= 2

\* a hook was inserted in a file with settings and a second entry
C23_WitnessHook ==
    /\ Len(arg) = 2
    /\ raised # <<>> /\ raised[1].kind = "AddedHook"
    /\ file.top # <<>>
    /\ Len(file.repos) >= 2

\* an entry was inserted in a file with settings and an entry
C23_WitnessInserted ==
    /\ Len(arg) = 1
    /\ raised # <<>> /\ raised[1].kind = "Added"
    /\ file.top # <<>>
    /\ Len(file.repos) >= 2
    /\ runs = 1

-----------------------------------------------------------------------------
(* C24 *)

\* C24: after update_precommit_hook has inserted or replaced a hook of a
\* repo entry, the entry that follows that repo entry is preceded by a
\* blank line
C24_HookBlankLineAfter ==
    [][(HookCall /\ raised' # <<>>)
       => \A i \in FirstMatching(file, arg'[1]) :
              i < Len(file'.repos) => file'.repos[i + 1].blank]_vars

-----------------------------------------------------------------------------
(* C25 *)

\* the recommendations of the working tree t
RecommendationsOf(t) ==
    IF CONFIG_PATH.vscode_extensions \in DOMAIN t
    THEN Recommendations(t[CONFIG_PATH.vscode_extensions])
    ELSE <<>>

\* the elements of s other than x, in the order of s
RECURSIVE Others(_, _)
Others(s, x) ==
    IF s = <<>> THEN <<>>
    ELSE IF Head(s) = x THEN Others(Tail(s), x)
    ELSE <<Head(s)>> \o Others(Tail(s), x)

\* C25: a run of remove_vscode_extension_recommendation that reports a
\* removal leaves a list without the name and with the other
\* recommendations in their order, and the run after it writes nothing and
\* raises nothing
C25_RemovalConverges ==
    [][(checker' = "remove_vscode_extension_recommendation" /\ runs' = runs + 1)
       => /\ raised' # <<>> =>
                RecommendationsOf(tree') = Others(RecommendationsOf(tree), VscodeExtensionName)
          /\ (runs >= 1 /\ raised # <<>>) => (raised' = <<>> /\ writes' = 0)]_vars

-----------------------------------------------------------------------------
(* C26 *)

\* the lines of .prettierignore in the working tree t
IgnoredLines(t) ==
    {t[CONFIG_PATH.prettier_ignore][i] : i \in 1..Len(t[CONFIG_PATH.prettier_ignore])}

\* .pre-commit-config.yaml has the repo of cspell
HasCspellRepo(f) ==
    f.exists /\ \E i \in 1..Len(f.repos) : Search(CspellUrl, f.repos[i].repo)

\* C26: on a tree with .prettierignore and a document with the repo of
\* cspell, _update_prettier_ignore leaves the file alone and raises nothing
\* when the line ".cspell.json" is in it, and otherwise adds the line and
\* keeps every line the file had
C26_IgnoreKeepsLines ==
    [][(checker' = "_update_prettier_ignore" /\ runs' = runs + 1
        /\ CONFIG_PATH.prettier_ignore \in DOMAIN tree /\ HasCspellRepo(file))
       => IF CspellLine \in IgnoredLines(tree)
          THEN tree' = tree /\ raised' = <<>>
          ELSE /\ CspellLine \in IgnoredLines(tree')
               /\ IgnoredLines(tree) \subseteq IgnoredLines(tree')]_vars

-----------------------------------------------------------------------------
(* C27 *)

\* s and t have the same elements, each as often
Permutation(s, t) ==
    /\ Len(s) = Len(t)
    /\ \A i \in 1..Len(s) :
          Cardinality({j \in 1..Len(s) : s[j] = s[i]}) =
          Cardinality({j \in 1..Len(t) : t[j] = s[i]})

\* the words are in ascending order of their lower-cased form
Ascending(s) ==
    \A i \in 1..(Len(s) - 1) : StrLe(Lower(s[i]), Lower(s[i + 1]))

\* a section that is absent stays absent, a list is sorted
SortedSection(old, new) ==
    IF old = <<>> THEN new = <<>>
    ELSE new # <<>> /\ Permutation(old[1], new[1]) /\ Ascending(new[1])

\* C27: after _sort_config_entries every list section of .cspell.json is a
\* permutation of what it was, in ascending case-insensitive order, the
\* other sections and the other files are as they were, the file is written
\* and a correction raised exactly when a list section was not in that
\* order, and a second run writes nothing and raises nothing
C27_SortLosesNothing ==
    [][(checker' = "_sort_config_entries" /\ runs' = runs + 1)
       => LET old == tree[CONFIG_PATH.cspell]
              new == tree'[CONFIG_PATH.cspell]
              unsorted == \/ old.words # <<>> /\ ~Ascending(old.words[1])
                          \/ old.ignoreWords # <<>> /\ ~Ascending(old.ignoreWords[1])
          IN  /\ DOMAIN tree' = DOMAIN tree
              /\ \A p \in DOMAIN tree \ {CONFIG_PATH.cspell} : tree'[p] = tree[p]
              /\ new.language = old.language
              /\ SortedSection(old.words, new.words)
              /\ SortedSection(old.ignoreWords, new.ignoreWords)
              /\ IF unsorted
                 THEN writes' = 1 /\ raised' = <<[kind |-> "SortedSections"]>>
                 ELSE writes' = 0 /\ raised' = <<>> /\ tree' = tree
              /\ runs >= 1 => (writes' = 0 /\ raised' = <<>>)]_vars

\* the second run has returned in silence on the words that the first run
\* sorted
C27_Witness ==
    /\ checker = "_sort_config_entries"
    /\ runs = 2
    /\ raised = <<>>
    /\ writes = 0
    /\ tree[CONFIG_PATH.cspell].words = <<(<<(<<"a">>), (<<"B">>), (<<"c">>)>>)>>

\* one of two list sections was sorted, the other was in order
C27_WitnessOneSection ==
    /\ checker = "_sort_config_entries"
    /\ runs = 1
    /\ raised # <<>>
    /\ tree[CONFIG_PATH.cspell].words = <<(<<(<<"a">>), (<<"c">>)>>)>>
    /\ tree[CONFIG_PATH.cspell].ignoreWords = <<(<<(<<"a">>), (<<"B">>), (<<"b">>)>>)>>

-----------------------------------------------------------------------------
(* C28 *)

\* the positions (from 1) of the lines that start with "#"
TitleLines(lines) ==
    {i \in 1..Len(lines) : lines[i] # <<>> /\ lines[i][1] = "#"}

\* s occurs in t
Occurs(s, t) ==
    \E j \in 1..(Len(t) - Len(s) + 1) : SubSeq(t, j, j + Len(s) - 1) = s

\* C28: when add_badge misses the badge in a README.md that has a line
\* starting with "#", it writes the badge directly behind the first such
\* line and reports the fix; it reports that there is no title only when
\* no line starts with "#"
C28_BadgeAfterTitle ==
    [][(BadgeCall /\ executed'[1] \in {"add_badge", "helpers_add_badge"}
        /\ ReadmePath \in DOMAIN tree /\ raised' # <<>>)
       => LET lines  == readlines(tree[ReadmePath])
              titles == TitleLines(lines)
          IN  IF titles = {} THEN raised'[1].kind = "NoTitle"
              ELSE LET k    == CHOOSE i \in titles : \A j \in titles : i <= j
                       head == writelines(SubSeq(lines, 1, k))
                       tail == writelines(SubSeq(lines, k + 1, Len(lines)))
                       new  == tree'[ReadmePath]
                   IN  /\ raised'[1].kind = "Fixed"
                       /\ Len(new) >= Len(head) + Len(arg'[1]) + Len(tail)
                       /\ SubSeq(new, 1, Len(head)) = head
                       /\ SubSeq(new, Len(new) - Len(tail) + 1, Len(new)) = tail
                       /\ Occurs(arg'[1], SubSeq(new, Len(head) + 1, Len(new) - Len(tail)))]_vars

-----------------------------------------------------------------------------
(* C29 *)

\* the number of elements of s equal to x
Count(s, x) == Cardinality({i \in 1..Len(s) : s[i] = x})

\* the artefacts of cspell in the working tree t: the file .cspell.json, the
\* lines ".cspell.json" of .editorconfig, the badge lines of README.md and
\* the occurrences of the extension in the recommendations
Artefacts(t) ==
    (IF CONFIG_PATH.cspell \in DOMAIN t THEN 1 ELSE 0)
    + (IF CONFIG_PATH.editor_config \in DOMAIN t
       THEN Count(t[CONFIG_PATH.editor_config], CspellLine) ELSE 0)
    + (IF ReadmePath \in DOMAIN t
       THEN LET lines == readlines(t[ReadmePath])
            IN  Cardinality({i \in 1..Len(lines) : re_match(<<"B">>, lines[i])})
       ELSE 0)
    + Count(RecommendationsOf(t), VscodeExtensionName)

\* C29: on a document without the repo of cspell no run of
\* _remove_configuration adds an artefact and every run that raises has
\* removed at least one, so that the runs end with one that raises nothing
C29_RemovalTerminates ==
    [][(checker' = "_remove_configuration" /\ runs' = runs + 1)
       => /\ Artefacts(tree') <= Artefacts(tree)
          /\ raised' # <<>> => Artefacts(tree') < Artefacts(tree)
          /\ raised' = <<>> => tree' = tree]_vars

=============================================================================
